---- MODULE Spec2Model ----
(***************************************************************************)
(* Model of the Azure DevOps test-case synchronisation script              *)
(* (src/tests/TestData/AzureDevOpsClient.mjs): the AzureDevOpsClient class *)
(* (configuration, Key Vault secret, Basic authentication, the two remote  *)
(* calls), the request-body builders and the main loop with its summary    *)
(* and exit code.                                                          *)
(*                                                                         *)
(* JavaScript values are tagged records: t is the type, and the payload    *)
(* field is s, n, a or o for a string, number, array or object.            *)
(* A JavaScript string is a sequence of one-character strings; console     *)
(* and error messages, which the script only passes along, are TLA+        *)
(* strings.                                                                *)
(***************************************************************************)
EXTENDS Integers, Sequences, FiniteSets, TLC

\* ---------------------------------------------------------------- bounds
\* Longest testCases array the model loads.
MaxCases == 3

\* ------------------------------------------------------ JavaScript values
Undef == [t |-> "undefined"]
Null == [t |-> "null"]
Str(s) == [t |-> "string", s |-> s]
Num(n) == [t |-> "number", n |-> n]
Arr(a) == [t |-> "array", a |-> a]
Obj(o) == [t |-> "object", o |-> o]

\* The outcome of a call: a returned value or a thrown Error with a message.
Returned(v) == [ok |-> TRUE, v |-> v]
Thrown(m) == [ok |-> FALSE, message |-> m]

\* JavaScript truthiness, as used by !value, a || b, a ? b : c, filter(Boolean).
Truthy(x) ==
  CASE x.t = "undefined" -> FALSE
    [] x.t = "null" -> FALSE
    [] x.t = "string" -> x.s # <<>>
    [] x.t = "number" -> x.n # 0
    [] OTHER -> TRUE

\* Property read x.f throws a TypeError on null and undefined.
PropertyThrows(x) == x.t \in {"undefined", "null"}

\* Property read x.f on anything else: the field, or undefined when absent.
Get(x, f) ==
  IF x.t = "object" /\ f \in DOMAIN x.o THEN x.o[f] ELSE Undef

\* Array.isArray
IsArray(x) == x.t = "array"

RECURSIVE Concat(_)
\* Concatenation of a sequence of character sequences.
Concat(parts) ==
  IF parts = <<>> THEN <<>> ELSE Head(parts) \o Concat(Tail(parts))

RECURSIVE Join(_, _)
\* Array.prototype.join on character sequences.
Join(parts, sep) ==
  IF parts = <<>> THEN <<>>
  ELSE IF Len(parts) = 1 THEN Head(parts)
  ELSE Head(parts) \o sep \o Join(Tail(parts), sep)

Digits == <<"0", "1", "2", "3", "4", "5", "6", "7", "8", "9">>

RECURSIVE NatToString(_)
\* Decimal text of a natural number.
NatToString(n) ==
  IF n < 10 THEN <<Digits[n + 1]>>
  ELSE NatToString(n \div 10) \o <<Digits[(n % 10) + 1]>>

UndefinedText == <<"u", "n", "d", "e", "f", "i", "n", "e", "d">>
NullText == <<"n", "u", "l", "l">>
ObjectText == <<"[", "o", "b", "j", "e", "c", "t", " ", "O", "b", "j", "e", "c", "t", "]">>

RECURSIVE JsToString(_)
\* String conversion of a value inside a template literal or a join.
JsToString(x) ==
  CASE x.t = "string" -> x.s
    [] x.t = "number" ->
         IF x.n < 0 THEN <<"-">> \o NatToString(0 - x.n) ELSE NatToString(x.n)
    [] x.t = "undefined" -> UndefinedText
    [] x.t = "null" -> NullText
    [] x.t = "array" ->
         Join([i \in 1..Len(x.a) |->
                 IF x.a[i].t \in {"undefined", "null"} THEN <<>>
                 ELSE JsToString(x.a[i])], <<",">>)
    [] OTHER -> ObjectText

\* ------------------------------------------------------------ xmlEscape
AmpEntity == <<"&", "a", "m", "p", ";">>
LtEntity == <<"&", "l", "t", ";">>
GtEntity == <<"&", "g", "t", ";">>

RECURSIVE ReplaceAll(_, _, _)
\* str.replace(/c/g, rep) for a one-character pattern c.
ReplaceAll(s, c, rep) ==
  IF s = <<>> THEN <<>>
  ELSE (IF Head(s) = c THEN rep ELSE <<Head(s)>>) \o ReplaceAll(Tail(s), c, rep)

\* Mutant of EscapeText: the ampersand pass runs last.
EscapeTextAmpLast(s) ==
  ReplaceAll(ReplaceAll(ReplaceAll(s, "<", LtEntity), ">", GtEntity), "&", AmpEntity)

\* Mutant of EscapeText: an ampersand that already begins one of the three
\* entities is taken for escaped text and left as it is.
EscapeTextKeepsEntities(s) ==
  LET RECURSIVE AmpPass(_)
      AmpPass(t) ==
        IF t = <<>> THEN <<>>
        ELSE IF /\ Head(t) = "&"
                /\ \A e \in {AmpEntity, LtEntity, GtEntity} :
                     ~(Len(t) >= Len(e) /\ SubSeq(t, 1, Len(e)) = e)
        THEN AmpEntity \o AmpPass(Tail(t))
        ELSE <<Head(t)>> \o AmpPass(Tail(t))
  IN ReplaceAll(ReplaceAll(AmpPass(s), "<", LtEntity), ">", GtEntity)

\* The three replace passes of xmlEscape on a string, in the source's order.
EscapeText(s) ==
  ReplaceAll(ReplaceAll(ReplaceAll(s, "&", AmpEntity), "<", LtEntity), ">", GtEntity)

\* xmlEscape(str = ""): the default applies to undefined only; any other
\* non-string has no usable replace method and the call throws a TypeError.
xmlEscape(x) ==
  CASE x.t = "undefined" -> Returned(<<>>)
    [] x.t = "string" -> Returned(EscapeText(x.s))
    [] x.t = "null" -> Thrown("Cannot read properties of null (reading 'replace')")
    [] OTHER -> Thrown("str.replace is not a function")

\* --------------------------------------------------------- buildStepsXml
StepOpenA == <<"<", "s", "t", "e", "p", " ", "i", "d", "=", "\"">>
StepOpenB == <<"\"", " ", "t", "y", "p", "e", "=", "\"", "A", "c", "t", "i", "o", "n", "S", "t", "e", "p", "\"", ">", "\n", " ", " ", "<", "p", "a", "r", "a", "m", "e", "t", "e", "r", "i", "z", "e", "d", "S", "t", "r", "i", "n", "g", " ", "i", "s", "f", "o", "r", "m", "a", "t", "t", "e", "d", "=", "\"", "t", "r", "u", "e", "\"", ">">>
StepMid == <<"<", "/", "p", "a", "r", "a", "m", "e", "t", "e", "r", "i", "z", "e", "d", "S", "t", "r", "i", "n", "g", ">", "\n", " ", " ", "<", "p", "a", "r", "a", "m", "e", "t", "e", "r", "i", "z", "e", "d", "S", "t", "r", "i", "n", "g", " ", "i", "s", "f", "o", "r", "m", "a", "t", "t", "e", "d", "=", "\"", "t", "r", "u", "e", "\"", ">">>
StepClose == <<"<", "/", "p", "a", "r", "a", "m", "e", "t", "e", "r", "i", "z", "e", "d", "S", "t", "r", "i", "n", "g", ">", "\n", "<", "/", "s", "t", "e", "p", ">">>
StepsOpen == <<"<", "s", "t", "e", "p", "s", " ", "i", "d", "=", "\"", "0", "\"", ">">>
StepsClose == <<"<", "/", "s", "t", "e", "p", "s", ">">>

\* Mutant of StepXml: the step carries the zero-based index as its id.
StepXmlZeroBased(s, i) ==
  IF PropertyThrows(s)
  THEN Thrown("Cannot read properties of null (reading 'action')")
  ELSE LET a == xmlEscape(Get(s, "action"))
           e == xmlEscape(Get(s, "expected"))
       IN IF ~a.ok THEN a
          ELSE IF ~e.ok THEN e
          ELSE Returned(StepOpenA \o NatToString(i - 1) \o StepOpenB \o a.v
                        \o StepMid \o e.v \o StepClose)

\* The markup of step number i (1-based) of the array, or the TypeError of
\* reading s.action / s.expected on null or of escaping a non-string.
StepXml(s, i) ==
  IF PropertyThrows(s)
  THEN Thrown("Cannot read properties of null (reading 'action')")
  ELSE LET a == xmlEscape(Get(s, "action"))
           e == xmlEscape(Get(s, "expected"))
       IN IF ~a.ok THEN a
          ELSE IF ~e.ok THEN e
          ELSE Returned(StepOpenA \o NatToString(i) \o StepOpenB \o a.v
                        \o StepMid \o e.v \o StepClose)

\* buildStepsXml(steps): map in index order; the first throwing step aborts.
buildStepsXml(steps) ==
  LET each == [i \in 1..Len(steps) |-> StepXml(steps[i], i)]
      bad == {i \in 1..Len(steps) : ~each[i].ok}
  IN IF bad # {}
     THEN each[CHOOSE i \in bad : \A j \in bad : i <= j]
     ELSE Returned(StepsOpen
                   \o Concat([i \in 1..Len(steps) |-> each[i].v])
                   \o StepsClose)

\* ----------------------------------------------------- buildTestCaseBody
TagSeparator == <<";", " ">>
LogicalIdPrefix == <<"L", "o", "g", "i", "c", "a", "l", "I", "D", ":">>
CategoryPrefix == <<"C", "a", "t", "e", "g", "o", "r", "y", ":">>

\* ...(tc.tags || []): the elements of an array, the characters of a string,
\* nothing for a falsy value; any other value is not iterable.
SpreadTags(tags) ==
  CASE ~Truthy(tags) -> Returned(<<>>)
    [] tags.t = "array" -> Returned(tags.a)
    [] tags.t = "string" -> Returned([i \in 1..Len(tags.s) |-> Str(<<tags.s[i]>>)])
    [] OTHER -> Thrown("(tc.tags || []) is not iterable")

\* Mutant of TagParts: the Category tag comes before the LogicalID tag.
TagPartsCategoryFirst(tc, explicit) ==
  explicit
  \o <<IF Truthy(Get(tc, "category"))
       THEN Str(CategoryPrefix \o JsToString(Get(tc, "category"))) ELSE Null>>
  \o <<IF Truthy(Get(tc, "id"))
       THEN Str(LogicalIdPrefix \o JsToString(Get(tc, "id"))) ELSE Null>>

\* The tag list before filtering: explicit tags, LogicalID, Category.
TagParts(tc, explicit) ==
  explicit
  \o <<IF Truthy(Get(tc, "id"))
       THEN Str(LogicalIdPrefix \o JsToString(Get(tc, "id"))) ELSE Null>>
  \o <<IF Truthy(Get(tc, "category"))
       THEN Str(CategoryPrefix \o JsToString(Get(tc, "category"))) ELSE Null>>

\* tagParts.filter(Boolean).join("; ")
TagString(tc, explicit) ==
  LET kept == SelectSeq(TagParts(tc, explicit), Truthy)
  IN Join([i \in 1..Len(kept) |-> JsToString(kept[i])], TagSeparator)

\* The JSON-patch document: title, steps, tags, and priority when truthy.
PatchDocument(tc, stepsXml, tags) ==
  <<[op |-> "add", path |-> "/fields/System.Title", value |-> Get(tc, "title")],
    [op |-> "add", path |-> "/fields/Microsoft.VSTS.TCM.Steps", value |-> Str(stepsXml)],
    [op |-> "add", path |-> "/fields/System.Tags", value |-> Str(tags)]>>
  \o (IF Truthy(Get(tc, "priority"))
      THEN <<[op |-> "add", path |-> "/fields/Microsoft.VSTS.Common.Priority",
              value |-> Get(tc, "priority")]>>
      ELSE <<>>)

\* buildTestCaseBody(tc): the steps markup first, then the tags, then the body.
buildTestCaseBody(tc) ==
  IF PropertyThrows(tc)
  THEN Thrown("Cannot read properties of null (reading 'steps')")
  ELSE LET stepsArg == IF Truthy(Get(tc, "steps")) THEN Get(tc, "steps") ELSE Arr(<<>>)
           stepsXml == IF IsArray(stepsArg) THEN buildStepsXml(stepsArg.a)
                       ELSE Thrown("steps.map is not a function")
           explicit == SpreadTags(Get(tc, "tags"))
       IN IF ~stepsXml.ok THEN stepsXml
          ELSE IF ~explicit.ok THEN explicit
          ELSE Returned(PatchDocument(tc, stepsXml.v, TagString(tc, explicit.v)))

\* ------------------------------------------------------------- _setupAuth
B64Alphabet == <<"A", "B", "C", "D", "E", "F", "G", "H", "I", "J", "K", "L", "M", "N", "O", "P", "Q", "R", "S", "T", "U", "V", "W", "X", "Y", "Z", "a", "b", "c", "d", "e", "f", "g", "h", "i", "j", "k", "l", "m", "n", "o", "p", "q", "r", "s", "t", "u", "v", "w", "x", "y", "z", "0", "1", "2", "3", "4", "5", "6", "7", "8", "9", "+", "/">>
\* The printable ASCII characters, code 32 to 126, in code order ("grave"
\* holds the place of code 96, which a TLA+ string cannot contain).
AsciiChars == <<" ", "!", "\"", "#", "$", "%", "&", "'", "(", ")", "*", "+", ",", "-", ".", "/", "0", "1", "2", "3", "4", "5", "6", "7", "8", "9", ":", ";", "<", "=", ">", "?", "@", "A", "B", "C", "D", "E", "F", "G", "H", "I", "J", "K", "L", "M", "N", "O", "P", "Q", "R", "S", "T", "U", "V", "W", "X", "Y", "Z", "[", "\\", "]", "^", "_", "grave", "a", "b", "c", "d", "e", "f", "g", "h", "i", "j", "k", "l", "m", "n", "o", "p", "q", "r", "s", "t", "u", "v", "w", "x", "y", "z", "{", "|", "}", "~">>

\* The byte of an ASCII character (Buffer.from encodes ASCII as one byte each).
CharCode(c) == 31 + (CHOOSE i \in 1..Len(AsciiChars) : AsciiChars[i] = c)

RECURSIVE Base64(_)
\* toString("base64") of a byte sequence: three bytes to four characters,
\* padded with "=".
Base64(b) ==
  IF b = <<>> THEN <<>>
  ELSE IF Len(b) = 1
  THEN <<B64Alphabet[(b[1] \div 4) + 1], B64Alphabet[((b[1] % 4) * 16) + 1], "=", "=">>
  ELSE IF Len(b) = 2
  THEN <<B64Alphabet[(b[1] \div 4) + 1],
         B64Alphabet[((b[1] % 4) * 16) + (b[2] \div 16) + 1],
         B64Alphabet[((b[2] % 16) * 4) + 1], "=">>
  ELSE <<B64Alphabet[(b[1] \div 4) + 1],
         B64Alphabet[((b[1] % 4) * 16) + (b[2] \div 16) + 1],
         B64Alphabet[((b[2] % 16) * 4) + (b[3] \div 64) + 1],
         B64Alphabet[(b[3] % 64) + 1]>>
       \o Base64(SubSeq(b, 4, Len(b)))

\* Buffer.from(`:${pat}`).toString("base64")
AuthOf(patValue) ==
  LET text == <<":">> \o JsToString(patValue)
  IN Base64([i \in 1..Len(text) |-> CharCode(text[i])])

BasicPrefix == <<"B", "a", "s", "i", "c", " ">>

\* The headers _setupAuth stores for createTestCase.
BaseHeadersOf(authText) ==
  [Authorization |-> BasicPrefix \o authText,
   ContentType |-> "application/json-patch+json",
   Accept |-> "application/json"]

\* ------------------------------------------------------------ _loadConfig
RequiredFields ==
  <<"keyVaultUrl", "azureDevOpsPatSecretName", "azureDevOpsOrgUrl",
    "azureDevOpsProject", "azureDevOpsPlanId", "azureDevOpsSuiteId">>

\* Mutant of LoadConfigResult: the last required field is not validated.
LoadConfigResultSkipsSuite(found, values) ==
  IF ~found THEN Thrown("Cannot find the config file config.json")
  ELSE LET missing == {i \in 1..(Len(RequiredFields) - 1) :
                         ~Truthy(values[RequiredFields[i]])}
       IN IF missing # {}
          THEN Thrown("Missing required configuration: "
                      \o RequiredFields[CHOOSE i \in missing : \A j \in missing : i <= j])
          ELSE Returned(Obj(values))

\* _loadConfig on what findup and nconf deliver: found says whether findup
\* located config.json, values[f] is nconf.get(f). The first missing field in
\* the order of requiredFields is the one reported.
LoadConfigResult(found, values) ==
  IF ~found THEN Thrown("Cannot find the config file config.json")
  ELSE LET missing == {i \in 1..Len(RequiredFields) : ~Truthy(values[RequiredFields[i]])}
       IN IF missing # {}
          THEN Thrown("Missing required configuration: "
                      \o RequiredFields[CHOOSE i \in missing : \A j \in missing : i <= j])
          ELSE Returned(Obj(values))

\* ------------------------------------------------- inputs of a run
\* A config.json that passes validation.
GoodConfig ==
  [keyVaultUrl |-> Str(<<"k", "v">>),
   azureDevOpsPatSecretName |-> Str(<<"s", "n">>),
   azureDevOpsOrgUrl |-> Str(<<"o", "/">>),
   azureDevOpsProject |-> Str(<<"p", "j">>),
   azureDevOpsPlanId |-> Num(12),
   azureDevOpsSuiteId |-> Num(34)]

\* What nconf.get can deliver for a field: absent, empty, or its good value.
FieldValues(f) == {Undef, Str(<<>>), GoodConfig[f]}

\* What findup and nconf deliver: no file, or every combination of fields.
ConfigOutcomes ==
  {[found |-> FALSE, values |-> GoodConfig]}
  \cup {[found |-> TRUE, values |-> v] :
          v \in [keyVaultUrl : FieldValues("keyVaultUrl"),
                 azureDevOpsPatSecretName : FieldValues("azureDevOpsPatSecretName"),
                 azureDevOpsOrgUrl : FieldValues("azureDevOpsOrgUrl"),
                 azureDevOpsProject : FieldValues("azureDevOpsProject"),
                 azureDevOpsPlanId : FieldValues("azureDevOpsPlanId"),
                 azureDevOpsSuiteId : FieldValues("azureDevOpsSuiteId")]}

\* What secretClient.getSecret can do: reject, or resolve with no secret, a
\* secret without a value, an empty value, or one of two tokens.
SecretOutcomes ==
  {Thrown("The user, group or application does not have secrets get permission"),
   Returned(Undef),
   Returned(Obj([name |-> Str(<<"s", "n">>)])),
   Returned(Obj([value |-> Str(<<>>)])),
   Returned(Obj([value |-> Str(<<"t", "0", "k">>)])),
   Returned(Obj([value |-> Str(<<"A", "b">>)]))}

\* One well-formed step and the definitions the loaded array is drawn from:
\* a valid one, every way of failing the validation, valid-looking ones
\* from which no request body can be built (a null among the steps, an
\* action that is a number, tags that are a number), and a null element.
GoodStep == Obj([action |-> Str(<<"a", "<", "b">>), expected |-> Str(<<"&">>)])

FullCase ==
  Obj([id |-> Str(<<"A", "1">>), title |-> Str(<<"T">>), priority |-> Num(2),
       category |-> Str(<<"S">>), tags |-> Arr(<<Str(<<"x">>)>>),
       steps |-> Arr(<<GoodStep, GoodStep>>)])

NoTitleCase == Obj([steps |-> Arr(<<GoodStep>>)])

EmptyTitleCase == Obj([id |-> Str(<<"C">>), title |-> Str(<<>>), steps |-> Arr(<<GoodStep>>)])

NoStepsCase == Obj([id |-> Str(<<"D">>), title |-> Str(<<"V">>)])

StepsNotArrayCase == Obj([id |-> Str(<<"E">>), title |-> Str(<<"W">>), steps |-> Str(<<"s">>)])

EmptyStepsCase == Obj([id |-> Str(<<"F">>), title |-> Str(<<"X">>), steps |-> Arr(<<>>)])

NullStepCase == Obj([id |-> Str(<<"G">>), title |-> Str(<<"Y">>), steps |-> Arr(<<GoodStep, Null>>)])

NumberActionCase ==
  Obj([id |-> Str(<<"H">>), title |-> Str(<<"Z">>),
       steps |-> Arr(<<Obj([action |-> Num(5), expected |-> Str(<<"a">>)])>>)])

NumberTagsCase ==
  Obj([id |-> Str(<<"I">>), title |-> Str(<<"U">>), tags |-> Num(5),
       steps |-> Arr(<<GoodStep>>)])

CaseValues ==
  {FullCase, NoTitleCase, EmptyTitleCase, NoStepsCase,
   StepsNotArrayCase, EmptyStepsCase, NullStepCase, NumberActionCase,
   NumberTagsCase, Null}

RECURSIVE SeqsUpTo(_, _)
\* The sequences over S of length at most n.
SeqsUpTo(S, n) ==
  IF n = 0 THEN {<<>>}
  ELSE LET shorter == SeqsUpTo(S, n - 1)
       IN shorter \cup {Append(q, x) : q \in {r \in shorter : Len(r) = n - 1}, x \in S}

\* What reading and parsing the test-case file can give: a read or parse
\* error, or a parsed payload (null, a non-object, an object without
\* testCases, with a testCases that is no array, or with an array).
FileOutcomes ==
  {Thrown("ENOENT: no such file or directory"),
   Thrown("Unexpected token } in JSON"),
   Returned(Null),
   Returned(Num(5)),
   Returned(Obj([suite |-> Str(<<"s">>)])),
   Returned(Obj([testCases |-> Obj([a |-> FullCase])])),
   Returned(Obj([testCases |-> Null])),
   Returned(Obj([testCases |-> Str(<<>>)]))}
  \cup {Returned(Obj([testCases |-> Arr(l)])) : l \in SeqsUpTo(CaseValues, MaxCases)}

\* What the create request can do: resolve with an id, resolve without one,
\* or reject.
CreateOutcomes ==
  {Returned(Num(7)), Returned(Num(8)), Returned(Undef),
   Thrown("Request failed with status code 400")}

\* What the suite request can do: resolve or reject.
AddOutcomes == {Returned(Undef), Thrown("Request failed with status code 404")}

\* ------------------------------------------------------------------ state
VARIABLES
  pc,              \* where the script is
  config,          \* this.config
  pat,             \* this.pat
  auth,            \* this.auth
  baseHeaders,     \* this.baseHeaders
  secretLookups,   \* number of getSecret calls issued
  testCases,       \* payload.testCases once loaded
  idx,             \* 1-based position of the for-of loop
  successCount,
  failedCount,
  failedTestCases,
  workItemId,      \* the try block's workItemId while it is in scope
  calls,           \* the HTTP requests issued, in order
  responses,       \* how each HTTP request ended, in order
  results,         \* the outcome of each definition processed, in order
  summary,         \* the execution summary once printed
  fatalError,      \* the message the fatal catch printed, "" if none
  exitCode,        \* the argument of process.exit, NoExit while running
  configInput,     \* what findup and nconf delivered
  secretInput,     \* how getSecret ended
  fileInput,       \* how reading and parsing the file ended
  called,          \* the builder function applied on its own, "none" in a run
  argument,        \* its argument
  returned,        \* how it ended
  scenario,        \* the UI test that runs, "none" outside a UI test
  at,              \* 1-based position in the scenario's operations
  verdict,         \* "idle", "running", "passed" or "failed"
  site,            \* what the browser page shows
  objects,         \* the test's page and the page each page object is over
  call             \* the helper called on its own, and how far it has got

vars ==
  <<pc, config, pat, auth, baseHeaders, secretLookups, testCases, idx,
    successCount, failedCount, failedTestCases, workItemId, calls, responses,
    results, summary, fatalError, exitCode, configInput, secretInput,
    fileInput, called, argument, returned, scenario, at, verdict, site,
    objects, call>>

clientVars == <<config, pat, auth, baseHeaders>>
loopVars == <<idx, successCount, failedCount, failedTestCases, workItemId, results>>
inputVars == <<configInput, secretInput, fileInput>>
syncVars ==
  <<pc, clientVars, secretLookups, testCases, loopVars, calls, responses,
    summary, fatalError, exitCode, inputVars>>
builderVars == <<called, argument, returned>>
uiVars == <<scenario, at, verdict, site, objects>>
\* What a run of the script leaves alone.
outsideSync == <<builderVars, uiVars, call>>

NoExit == 0 - 1
NoSummary == [printed |-> FALSE]
NotSeen == [seen |-> FALSE]
Seen(o) == [seen |-> TRUE, o |-> o]

\* new AzureDevOpsClient() and the script before its first statement.
SyncStart ==
  /\ pc = "Init"
  /\ config = Null
  /\ pat = Null
  /\ auth = Null
  /\ baseHeaders = Null
  /\ secretLookups = 0
  /\ testCases = Undef
  /\ idx = 1
  /\ successCount = 0
  /\ failedCount = 0
  /\ failedTestCases = <<>>
  /\ workItemId = Undef
  /\ calls = <<>>
  /\ responses = <<>>
  /\ results = <<>>
  /\ summary = NoSummary
  /\ fatalError = ""
  /\ exitCode = NoExit
  /\ configInput = NotSeen
  /\ secretInput = NotSeen
  /\ fileInput = NotSeen

\* No builder function is applied on its own during a run of the script.
BuilderIdle ==
  /\ called = "none"
  /\ argument = Undef
  /\ returned = NotSeen

\* No browser page exists: no UI test runs.
NoSite ==
  [where |-> "none", layer |-> "none", checked |-> "", other |-> 0,
   feedback |-> 0, submit |-> FALSE]

\* No UI test runs during a run of the script.
UiIdle ==
  /\ scenario = "none"
  /\ at = 1
  /\ verdict = "idle"
  /\ site = NoSite
  /\ objects = [page |-> 0, home |-> 0, status |-> 0, dialog |-> 0]

\* No helper is called on its own.
NoCall == [fn |-> "none"]

\* A run of the script starts here.
Init == SyncStart /\ BuilderIdle /\ UiIdle /\ call = NoCall

\* Mutant of Fatal: the fatal catch exits with status 2.
FatalExitsTwo(message) ==
  /\ pc' = "Terminal"
  /\ fatalError' = message
  /\ exitCode' = 2

\* The outer catch: print the message, process.exit(1).
Fatal(message) ==
  /\ pc' = "Terminal"
  /\ fatalError' = message
  /\ exitCode' = 1

\* Mutant of ExitOne: the file-loading checks exit with status 0.
ExitOneAsZero ==
  /\ pc' = "Terminal"
  /\ exitCode' = 0
  /\ UNCHANGED fatalError

\* process.exit(1) of the file-loading checks, outside the fatal catch.
ExitOne ==
  /\ pc' = "Terminal"
  /\ exitCode' = 1
  /\ UNCHANGED fatalError

\* initialize, first part: _loadConfig stores the config or throws.
LoadConfig ==
  /\ pc = "Init"
  /\ \E o \in ConfigOutcomes :
       LET r == LoadConfigResult(o.found, o.values)
       IN /\ configInput' = Seen(o)
          /\ IF r.ok
             THEN /\ config' = r.v
                  /\ pc' = "ConfigLoaded"
                  /\ UNCHANGED <<fatalError, exitCode>>
             ELSE /\ Fatal(r.message)
                  /\ UNCHANGED config
  /\ UNCHANGED <<pat, auth, baseHeaders, secretLookups, testCases, loopVars,
                 calls, responses, summary, secretInput, fileInput>>
  /\ UNCHANGED outsideSync

\* _fetchSecrets up to its await: the getSecret request is issued.
FetchSecretsCall ==
  /\ pc = "ConfigLoaded"
  /\ secretLookups' = secretLookups + 1
  /\ pc' = "AwaitSecret"
  /\ UNCHANGED <<clientVars, testCases, loopVars, calls, responses, summary,
                 fatalError, exitCode, inputVars>>
  /\ UNCHANGED outsideSync

\* patSecret?.value
PatOf(secret) == IF PropertyThrows(secret) THEN Undef ELSE Get(secret, "value")

\* Mutant of SecretUsable: only a missing value is rejected.
SecretUsableIfDefined(value) == value.t # "undefined"

\* The check on this.pat: a falsy value is a failed retrieval.
SecretUsable(value) == Truthy(value)

\* _fetchSecrets after its await: store the value, throw when it is falsy;
\* a rejection or that throw reaches the fatal catch.
FetchSecretsReturn ==
  /\ pc = "AwaitSecret"
  /\ \E o \in SecretOutcomes :
       /\ secretInput' = Seen(o)
       /\ IF ~o.ok
          THEN Fatal(o.message) /\ UNCHANGED pat
          ELSE /\ pat' = PatOf(o.v)
               /\ IF SecretUsable(PatOf(o.v))
                  THEN pc' = "CredentialsFetched" /\ UNCHANGED <<fatalError, exitCode>>
                  ELSE Fatal("Failed to retrieve Azure DevOps PAT from Key Vault")
  /\ UNCHANGED <<config, auth, baseHeaders, secretLookups, testCases, loopVars,
                 calls, responses, summary, configInput, fileInput>>
  /\ UNCHANGED outsideSync

\* _setupAuth
SetupAuth ==
  /\ pc = "CredentialsFetched"
  /\ auth' = Str(AuthOf(pat))
  /\ baseHeaders' = Obj(BaseHeadersOf(AuthOf(pat)))
  /\ pc' = "Ready"
  /\ UNCHANGED <<config, pat, secretLookups, testCases, loopVars, calls,
                 responses, summary, fatalError, exitCode, inputVars>>
  /\ UNCHANGED outsideSync

\* Array.isArray(payload.testCases), on a payload whose fields can be read.
HasTestCasesArray(payload) == IsArray(Get(payload, "testCases"))

\* Read and parse the file, check payload.testCases.
LoadTestCases ==
  /\ pc = "Ready"
  /\ \E o \in FileOutcomes :
       /\ fileInput' = Seen(o)
       /\ IF ~o.ok
          THEN ExitOne /\ UNCHANGED testCases
          ELSE IF PropertyThrows(o.v)
          THEN /\ Fatal("Cannot read properties of null (reading 'testCases')")
               /\ UNCHANGED testCases
          ELSE IF ~HasTestCasesArray(o.v)
          THEN ExitOne /\ UNCHANGED testCases
          ELSE /\ testCases' = Get(o.v, "testCases")
               /\ pc' = "Processing"
               /\ UNCHANGED <<fatalError, exitCode>>
  /\ UNCHANGED <<clientVars, secretLookups, loopVars, calls, responses, summary,
                 configInput, secretInput>>
  /\ UNCHANGED outsideSync

\* The definition the loop is at.
Current == testCases.a[idx]
InLoop == pc = "Processing" /\ idx <= Len(testCases.a)

\* Mutant of FailsValidation: the empty-array check is missing.
FailsValidationNoLength(tc) ==
  IF ~Truthy(Get(tc, "title")) THEN TRUE ELSE ~IsArray(Get(tc, "steps"))

\* The basic validation of the loop, on an element whose fields can be read.
FailsValidation(tc) ==
  IF ~Truthy(Get(tc, "title")) THEN TRUE
  ELSE IF ~IsArray(Get(tc, "steps")) THEN TRUE
  ELSE Len(Get(tc, "steps").a) = 0

\* Mutant of FailureEntry: every entry carries the validation reason.
FailureEntryFixedReason(tc, reason) ==
  [id |-> Get(tc, "id"), title |-> Get(tc, "title"),
   reason |-> "Missing title or steps"]

\* An entry of failedTestCases.
FailureEntry(tc, reason) ==
  [id |-> Get(tc, "id"), title |-> Get(tc, "title"), reason |-> reason]

\* Reading tc.title of a null element throws outside the per-item try.
ValidateThrows ==
  /\ InLoop
  /\ PropertyThrows(Current)
  /\ Fatal("Cannot read properties of null (reading 'title')")
  /\ UNCHANGED <<clientVars, secretLookups, testCases, loopVars, calls,
                 responses, summary, inputVars>>
  /\ UNCHANGED outsideSync

\* Mutant of SkipItem: a skipped definition is recorded but not counted.
SkipItemUncounted ==
  /\ InLoop
  /\ ~PropertyThrows(Current)
  /\ FailsValidation(Current)
  /\ failedTestCases' =
       Append(failedTestCases, FailureEntry(Current, "Missing title or steps"))
  /\ results' = Append(results, [kind |-> "Skipped", reason |-> "Missing title or steps"])
  /\ idx' = idx + 1
  /\ UNCHANGED <<pc, clientVars, secretLookups, testCases, successCount,
                 failedCount, workItemId, calls, responses, summary, fatalError,
                 exitCode, inputVars>>
  /\ UNCHANGED outsideSync

\* The validation branch: count as failed, record, continue.
SkipItem ==
  /\ InLoop
  /\ ~PropertyThrows(Current)
  /\ FailsValidation(Current)
  /\ failedCount' = failedCount + 1
  /\ failedTestCases' =
       Append(failedTestCases, FailureEntry(Current, "Missing title or steps"))
  /\ results' = Append(results, [kind |-> "Skipped", reason |-> "Missing title or steps"])
  /\ idx' = idx + 1
  /\ UNCHANGED <<pc, clientVars, secretLookups, testCases, successCount,
                 workItemId, calls, responses, summary, fatalError, exitCode,
                 inputVars>>
  /\ UNCHANGED outsideSync

\* Mutant of RecordFailure: the failure is listed but failedCount is not
\* incremented.
RecordFailureUncounted(message) ==
  /\ failedTestCases' = Append(failedTestCases, FailureEntry(Current, message))
  /\ results' = Append(results, [kind |-> "Failed", reason |-> message])
  /\ idx' = idx + 1
  /\ workItemId' = Undef
  /\ pc' = "Processing"
  /\ UNCHANGED <<successCount, failedCount>>

\* The per-item catch: count, record with the error's message, next item.
RecordFailure(message) ==
  /\ failedCount' = failedCount + 1
  /\ failedTestCases' = Append(failedTestCases, FailureEntry(Current, message))
  /\ results' = Append(results, [kind |-> "Failed", reason |-> message])
  /\ idx' = idx + 1
  /\ workItemId' = Undef
  /\ pc' = "Processing"
  /\ UNCHANGED successCount

\* buildTestCaseBody throws inside the try.
BuildFails ==
  /\ InLoop
  /\ ~PropertyThrows(Current)
  /\ ~FailsValidation(Current)
  /\ ~buildTestCaseBody(Current).ok
  /\ RecordFailure(buildTestCaseBody(Current).message)
  /\ UNCHANGED <<clientVars, secretLookups, testCases, calls, responses,
                 summary, fatalError, exitCode, inputVars>>
  /\ UNCHANGED outsideSync

\* Mutant of CreateRequest: the header carries the token itself instead of
\* the stored Basic value.
CreateRequestBareToken(body) ==
  [op |-> "createTestCase", item |-> idx,
   org |-> config.o.azureDevOpsOrgUrl, project |-> config.o.azureDevOpsProject,
   body |-> body, authorization |-> BasicPrefix \o JsToString(pat)]

\* The request createTestCase posts.
CreateRequest(body) ==
  [op |-> "createTestCase", item |-> idx,
   org |-> config.o.azureDevOpsOrgUrl, project |-> config.o.azureDevOpsProject,
   body |-> body, authorization |-> baseHeaders.o.Authorization]

\* Mutant of SuiteRequest: the request names the loop's previous workItemId
\* instead of the identifier passed in.
SuiteRequestStaleId(id) ==
  [op |-> "addToSuite", item |-> idx,
   org |-> config.o.azureDevOpsOrgUrl, project |-> config.o.azureDevOpsProject,
   plan |-> config.o.azureDevOpsPlanId, suite |-> config.o.azureDevOpsSuiteId,
   workItemId |-> workItemId, authorization |-> BasicPrefix \o JsToString(auth)]

\* The request addToSuite posts.
SuiteRequest(id) ==
  [op |-> "addToSuite", item |-> idx,
   org |-> config.o.azureDevOpsOrgUrl, project |-> config.o.azureDevOpsProject,
   plan |-> config.o.azureDevOpsPlanId, suite |-> config.o.azureDevOpsSuiteId,
   workItemId |-> id, authorization |-> BasicPrefix \o JsToString(auth)]

\* How a request ended.
Response(op, o) == [op |-> op, item |-> idx, outcome |-> o]

\* Mutant of CreateCall: the request is posted without awaiting it and the
\* loop moves on.
CreateCallUnawaited ==
  /\ InLoop
  /\ ~PropertyThrows(Current)
  /\ ~FailsValidation(Current)
  /\ buildTestCaseBody(Current).ok
  /\ calls' = Append(calls, CreateRequest(buildTestCaseBody(Current).v))
  /\ idx' = idx + 1
  /\ UNCHANGED <<pc, clientVars, secretLookups, testCases, successCount,
                 failedCount, failedTestCases, workItemId, results, responses,
                 summary, fatalError, exitCode, inputVars>>
  /\ UNCHANGED outsideSync

\* Build the body and post it: createTestCase up to its await.
CreateCall ==
  /\ InLoop
  /\ ~PropertyThrows(Current)
  /\ ~FailsValidation(Current)
  /\ buildTestCaseBody(Current).ok
  /\ calls' = Append(calls, CreateRequest(buildTestCaseBody(Current).v))
  /\ pc' = "AwaitCreate"
  /\ UNCHANGED <<clientVars, secretLookups, testCases, loopVars, responses,
                 summary, fatalError, exitCode, inputVars>>
  /\ UNCHANGED outsideSync

\* Mutant of CreateReturns: the definition is counted as created as soon as
\* the work item exists, before the suite request has ended.
CreateReturnsCounts ==
  /\ pc = "AwaitCreate"
  /\ \E o \in {c \in CreateOutcomes : c.ok} :
       /\ responses' = Append(responses, Response("createTestCase", o))
       /\ workItemId' = o.v
       /\ calls' = Append(calls, SuiteRequest(o.v))
  /\ successCount' = successCount + 1
  /\ pc' = "AwaitAdd"
  /\ UNCHANGED <<clientVars, secretLookups, testCases, idx,
                 failedCount, failedTestCases, results, summary, fatalError,
                 exitCode, inputVars>>
  /\ UNCHANGED outsideSync

\* createTestCase returns response.data.id; addToSuite posts with it.
CreateReturns ==
  /\ pc = "AwaitCreate"
  /\ \E o \in {c \in CreateOutcomes : c.ok} :
       /\ responses' = Append(responses, Response("createTestCase", o))
       /\ workItemId' = o.v
       /\ calls' = Append(calls, SuiteRequest(o.v))
  /\ pc' = "AwaitAdd"
  /\ UNCHANGED <<clientVars, secretLookups, testCases, idx, successCount,
                 failedCount, failedTestCases, results, summary, fatalError,
                 exitCode, inputVars>>
  /\ UNCHANGED outsideSync

\* createTestCase rethrows the request's error.
CreateThrows ==
  /\ pc = "AwaitCreate"
  /\ \E o \in {c \in CreateOutcomes : ~c.ok} :
       /\ responses' = Append(responses, Response("createTestCase", o))
       /\ RecordFailure(o.message)
  /\ UNCHANGED <<clientVars, secretLookups, testCases, calls, summary,
                 fatalError, exitCode, inputVars>>
  /\ UNCHANGED outsideSync

\* addToSuite resolves: the definition counts as created.
AddReturns ==
  /\ pc = "AwaitAdd"
  /\ \E o \in {c \in AddOutcomes : c.ok} :
       /\ responses' = Append(responses, Response("addToSuite", o))
       /\ successCount' = successCount + 1
       /\ results' = Append(results, [kind |-> "Created", workItemId |-> workItemId])
  /\ idx' = idx + 1
  /\ workItemId' = Undef
  /\ pc' = "Processing"
  /\ UNCHANGED <<clientVars, secretLookups, testCases, failedCount,
                 failedTestCases, calls, summary, fatalError, exitCode,
                 inputVars>>
  /\ UNCHANGED outsideSync

\* Mutant of AddThrows: a failed suite request ends the run in the fatal
\* catch instead of the per-item catch.
AddThrowsAborts ==
  /\ pc = "AwaitAdd"
  /\ \E o \in {c \in AddOutcomes : ~c.ok} :
       /\ responses' = Append(responses, Response("addToSuite", o))
       /\ Fatal(o.message)
  /\ UNCHANGED <<clientVars, secretLookups, testCases, loopVars, calls,
                 summary, inputVars>>
  /\ UNCHANGED outsideSync

\* addToSuite rethrows the request's error.
AddThrows ==
  /\ pc = "AwaitAdd"
  /\ \E o \in {c \in AddOutcomes : ~c.ok} :
       /\ responses' = Append(responses, Response("addToSuite", o))
       /\ RecordFailure(o.message)
  /\ UNCHANGED <<clientVars, secretLookups, testCases, calls, summary,
                 fatalError, exitCode, inputVars>>
  /\ UNCHANGED outsideSync

\* The loop is over: print the execution summary.
Report ==
  /\ pc = "Processing"
  /\ idx > Len(testCases.a)
  /\ summary' = [printed |-> TRUE, total |-> Len(testCases.a),
                 created |-> successCount, failed |-> failedCount,
                 listed |-> failedTestCases]
  /\ pc' = "Reported"
  /\ UNCHANGED <<clientVars, secretLookups, testCases, loopVars, calls,
                 responses, fatalError, exitCode, inputVars>>
  /\ UNCHANGED outsideSync

\* Mutant of ExitCodeOf: a single failure still exits 0.
ExitCodeOfOffByOne(failed) == IF failed > 1 THEN 1 ELSE 0

\* failedCount > 0 ? 1 : 0
ExitCodeOf(failed) == IF failed > 0 THEN 1 ELSE 0

\* Exit that never calls process.exit: the script stays where it is.
ExitNeverCalled ==
  /\ pc = "Reported"
  /\ UNCHANGED vars

\* process.exit with the code the counters give.
Exit ==
  /\ pc = "Reported"
  /\ exitCode' = ExitCodeOf(failedCount)
  /\ pc' = "Terminal"
  /\ UNCHANGED <<clientVars, secretLookups, testCases, loopVars, calls,
                 responses, summary, fatalError, inputVars>>
  /\ UNCHANGED outsideSync

Next ==
  \/ LoadConfig
  \/ FetchSecretsCall
  \/ FetchSecretsReturn
  \/ SetupAuth
  \/ LoadTestCases
  \/ ValidateThrows
  \/ SkipItem
  \/ BuildFails
  \/ CreateCall
  \/ CreateReturns
  \/ CreateThrows
  \/ AddReturns
  \/ AddThrows
  \/ Report
  \/ Exit

Spec == Init /\ [][Next]_vars

\* ----------------------------------------------------- vocabulary of the claims
Loaded == testCases.t = "array"
Def(i) == testCases.a[i]
Items == IF Loaded THEN 1..Len(testCases.a) ELSE {}

\* A definition whose title is missing or empty, or whose steps is missing,
\* no array, or an empty array.
InvalidDefinition(tc) ==
  IF tc.t # "object" THEN FALSE
  ELSE IF "title" \notin DOMAIN tc.o THEN TRUE
  ELSE IF tc.o.title \in {Undef, Null, Str(<<>>)} THEN TRUE
  ELSE IF "steps" \notin DOMAIN tc.o THEN TRUE
  ELSE IF tc.o.steps.t # "array" THEN TRUE
  ELSE tc.o.steps.a = <<>>

\* A definition with a non-empty title and at least one step.
ValidDefinition(tc) ==
  IF tc.t # "object" THEN FALSE
  ELSE IF {"title", "steps"} \subseteq DOMAIN tc.o
  THEN /\ tc.o.title.t = "string"
       /\ tc.o.title.s # <<>>
       /\ tc.o.steps.t = "array"
       /\ tc.o.steps.a # <<>>
  ELSE FALSE

\* A valid definition from which a request body can be built: no step is
\* null, the action and the expected result of every step are strings or
\* absent, and tags is absent, falsy, an array or a string.
WellFormedDefinition(tc) ==
  /\ ValidDefinition(tc)
  /\ \A k \in 1..Len(tc.o.steps.a) :
       LET step == tc.o.steps.a[k]
       IN /\ step.t \notin {"null", "undefined"}
          /\ step.t = "object" =>
               \A f \in {"action", "expected"} :
                 f \in DOMAIN step.o => step.o[f].t \in {"string", "undefined"}
  /\ "tags" \in DOMAIN tc.o =>
       \/ tc.o.tags.t \in {"array", "string", "undefined", "null"}
       \/ tc.o.tags = Num(0)

CallsOf(op, i) == {k \in 1..Len(calls) : calls[k].op = op /\ calls[k].item = i}
ResponsesOf(op, i) ==
  {k \in 1..Len(responses) : responses[k].op = op /\ responses[k].item = i}
Succeeded(op, i) == \E k \in ResponsesOf(op, i) : responses[k].outcome.ok
FailedRemotely(i) ==
  {k \in 1..Len(responses) : responses[k].item = i /\ ~responses[k].outcome.ok}
CountKind(kind) == Cardinality({i \in 1..Len(results) : results[i].kind = kind})
Finished == pc = "Terminal" /\ summary.printed

\* C1: a definition with an empty or missing title, or with steps missing, no
\* array or empty, is recorded as Skipped once the loop has passed it, and no
\* createTestCase or addToSuite request is ever issued for it.
C1_SkippedWithoutRemoteCall ==
  \A i \in Items :
    InvalidDefinition(Def(i)) =>
      /\ CallsOf("createTestCase", i) = {}
      /\ CallsOf("addToSuite", i) = {}
      /\ i <= Len(results) => results[i].kind = "Skipped"

C1_Witness ==
  /\ calls # <<>>
  /\ \E i \in Items :
       /\ i <= Len(results)
       /\ InvalidDefinition(Def(i))
       /\ Get(Def(i), "steps") = Arr(<<>>)
       /\ results[i].kind = "Skipped"

\* C2 as stated: at the end of a reported run every valid definition has
\* exactly one createTestCase request followed by exactly one addToSuite
\* request, which carries the identifier createTestCase returned.
C2_Original ==
  Finished =>
    \A i \in Items :
      ValidDefinition(Def(i)) =>
        /\ Cardinality(CallsOf("createTestCase", i)) = 1
        /\ Cardinality(CallsOf("addToSuite", i)) = 1
        /\ \A a \in CallsOf("addToSuite", i) :
             /\ \A c \in CallsOf("createTestCase", i) : c < a
             /\ \E k \in ResponsesOf("createTestCase", i) :
                  /\ responses[k].outcome.ok
                  /\ calls[a].workItemId = responses[k].outcome.v

\* C2 amended: for every definition at most one createTestCase and at most one
\* addToSuite request is issued; a processed valid definition has exactly one
\* createTestCase request when a request body can be built from it (no null
\* step, string or absent step texts, tags that can be spread) and none
\* otherwise; an addToSuite request exists exactly when createTestCase
\* returned for that definition, it comes after the createTestCase request
\* and carries the returned identifier.
C2_CreateThenLinkWhenCreated ==
  \A i \in Items :
    /\ Cardinality(CallsOf("createTestCase", i)) <= 1
    /\ Cardinality(CallsOf("addToSuite", i)) <= 1
    /\ (i <= Len(results) /\ ValidDefinition(Def(i))) =>
         Cardinality(CallsOf("createTestCase", i)) =
           IF WellFormedDefinition(Def(i)) THEN 1 ELSE 0
    /\ CallsOf("addToSuite", i) # {} <=> Succeeded("createTestCase", i)
    /\ \A a \in CallsOf("addToSuite", i) :
         /\ \E c \in CallsOf("createTestCase", i) : c < a
         /\ \E k \in ResponsesOf("createTestCase", i) :
              /\ responses[k].outcome.ok
              /\ calls[a].workItemId = responses[k].outcome.v

C2_Witness ==
  /\ Finished
  /\ \E i, j \in Items :
       /\ ValidDefinition(Def(i)) /\ ValidDefinition(Def(j))
       /\ CallsOf("addToSuite", i) # {}
       /\ \E a \in CallsOf("addToSuite", i) : calls[a].workItemId = Num(8)
       /\ CallsOf("createTestCase", j) # {}
       /\ CallsOf("addToSuite", j) = {}
  /\ \E k \in Items :
       /\ Def(k) = NumberTagsCase
       /\ results[k].kind = "Failed"
       /\ CallsOf("createTestCase", k) = {}

\* C3 as stated: at the end of a reported run the exit code is 0 exactly when
\* no definition ended Failed, whatever was Skipped.
C3_Original == Finished => (exitCode = 0 <=> CountKind("Failed") = 0)

\* C3 amended: at the end of a reported run the exit code is 0 exactly when no
\* definition ended Failed or Skipped; otherwise it is 1.
C3_ExitZeroIffAllCreated ==
  Finished =>
    /\ exitCode \in {0, 1}
    /\ exitCode = 0 <=> (CountKind("Failed") = 0 /\ CountKind("Skipped") = 0)

C3_Witness ==
  /\ Finished
  /\ exitCode = 1
  /\ CountKind("Failed") = 0
  /\ CountKind("Skipped") > 0
  /\ CountKind("Created") > 0

\* The run of C4: three definitions, the first valid with both requests
\* succeeding, the second with an empty steps list, the third valid with a
\* rejected create request.
C4_Scenario ==
  /\ Finished
  /\ Len(testCases.a) = 3
  /\ ValidDefinition(Def(1))
  /\ Succeeded("createTestCase", 1) /\ Succeeded("addToSuite", 1)
  /\ Def(2).t = "object"
  /\ Get(Def(2), "steps") = Arr(<<>>)
  /\ ValidDefinition(Def(3))
  /\ \E k \in FailedRemotely(3) : responses[k].op = "createTestCase"

\* C4 as stated: that run reports Created=1, Skipped=1, Failed=1 and exits 1.
C4_Original ==
  C4_Scenario =>
    /\ summary.created = 1
    /\ CountKind("Skipped") = 1
    /\ summary.failed = 1
    /\ exitCode = 1

\* C4 amended: that run reports 1 successfully created and 2 failed, the
\* skipped definition being counted and listed among the failed ones with the
\* reason "Missing title or steps", and exits with code 1.
C4_ScenarioCounts ==
  C4_Scenario =>
    /\ summary.total = 3
    /\ summary.created = 1
    /\ summary.failed = 2
    /\ Len(summary.listed) = 2
    /\ summary.listed[1].reason = "Missing title or steps"
    /\ results[1].kind = "Created"
    /\ results[2].kind = "Skipped"
    /\ results[3].kind = "Failed"
    /\ exitCode = 1

C4_Witness == C4_Scenario /\ Def(1) = FullCase /\ Def(3) = FullCase

\* The positions whose result is not Created, in increasing order.
NotCreated ==
  SelectSeq([i \in 1..Len(results) |-> i], LAMBDA i : results[i].kind # "Created")

\* C5: the loop goes through the list once, in order, one result per
\* definition: after k definitions there are k results and successCount +
\* failedCount = k, requests are issued in list order, the failure list
\* names the definitions that were not created in list order, and once the
\* summary is printed there are as many results as definitions.
C5_OneResultPerDefinitionInOrder ==
  Loaded =>
    /\ idx \in 1..(Len(testCases.a) + 1)
    /\ Len(results) = idx - 1
    /\ successCount + failedCount = idx - 1
    /\ successCount = CountKind("Created")
    /\ \A k \in 1..Len(calls) :
         /\ calls[k].item <= idx
         /\ k > 1 => calls[k - 1].item <= calls[k].item
    /\ Len(failedTestCases) = Len(NotCreated)
    /\ \A j \in 1..Len(NotCreated) :
         /\ failedTestCases[j].id = Get(Def(NotCreated[j]), "id")
         /\ failedTestCases[j].title = Get(Def(NotCreated[j]), "title")
    /\ summary.printed =>
         /\ Len(results) = Len(testCases.a)
         /\ summary.total = Len(testCases.a)
         /\ summary.created + summary.failed = Len(testCases.a)

C5_Witness ==
  /\ pc = "Reported"
  /\ Len(results) >= 3
  /\ CountKind("Created") > 0
  /\ CountKind("Skipped") > 0
  /\ CountKind("Failed") > 0

\* C6: when the createTestCase or addToSuite request of definition i fails,
\* that definition is recorded as Failed with the error's message as reason
\* (in the results and in the failure list), the loop has moved on past i,
\* and every other definition's result is what its own validity and its own
\* requests give: Skipped if invalid, Failed with its own error if one of its
\* requests failed, Created if both succeeded.
C6_RemoteFailureIsolated ==
  \A i \in Items :
    /\ \A k \in FailedRemotely(i) :
         /\ i <= Len(results)
         /\ idx > i
         /\ results[i] = [kind |-> "Failed", reason |-> responses[k].outcome.message]
         /\ \E j \in 1..Len(failedTestCases) :
              /\ j <= Len(NotCreated)
              /\ NotCreated[j] = i
              /\ failedTestCases[j].reason = responses[k].outcome.message
    /\ i <= Len(results) =>
         /\ InvalidDefinition(Def(i)) => results[i].kind = "Skipped"
         /\ (Succeeded("createTestCase", i) /\ Succeeded("addToSuite", i))
              => results[i].kind = "Created"
         /\ results[i].kind = "Created"
              => (Succeeded("createTestCase", i) /\ Succeeded("addToSuite", i))

C6_Witness ==
  /\ Finished
  /\ \E i, j, l \in Items :
       /\ i < j /\ j < l
       /\ \E k \in FailedRemotely(i) : responses[k].op = "createTestCase"
       /\ \E k \in FailedRemotely(j) : responses[k].op = "addToSuite"
       /\ results[l].kind = "Created"

\* C7: once the list is loaded, an error thrown while processing a
\* definition never ends the run: the run ends only after the summary, with
\* one result for every definition.
C7_ItemErrorNeverFatal ==
  (Loaded /\ pc = "Terminal") =>
    /\ summary.printed
    /\ fatalError = ""
    /\ Len(results) = Len(testCases.a)

\* The configuration is unusable: no file, or a required field missing or
\* empty.
BadConfigInput ==
  /\ configInput.seen
  /\ \/ ~configInput.o.found
     \/ \E f \in DOMAIN configInput.o.values :
          configInput.o.values[f] \in {Undef, Null, Str(<<>>)}

\* C8: with no config file, or with one of the six required fields missing or
\* empty, the run ends at once with exit code 1: no secret lookup, no list
\* loaded, no request, and the client's config still null.
C8_BadConfigIsFatal ==
  BadConfigInput =>
    /\ pc = "Terminal"
    /\ exitCode = 1
    /\ secretLookups = 0
    /\ secretInput = NotSeen
    /\ fileInput = NotSeen
    /\ ~Loaded
    /\ calls = <<>>
    /\ config = Null

C8_Witness ==
  /\ BadConfigInput
  /\ configInput.o.found
  /\ configInput.o.values.azureDevOpsSuiteId = Str(<<>>)
  /\ \A f \in DOMAIN GoodConfig \ {"azureDevOpsSuiteId"} :
       configInput.o.values[f] = GoodConfig[f]
  /\ pc = "Terminal"

\* The secret lookup rejected, or resolved without a usable value.
BadSecretInput ==
  /\ secretInput.seen
  /\ IF ~secretInput.o.ok THEN TRUE
     ELSE IF secretInput.o.v.t # "object" THEN TRUE
     ELSE IF "value" \notin DOMAIN secretInput.o.v.o THEN TRUE
     ELSE secretInput.o.v.o.value \in {Undef, Null, Str(<<>>)}

\* C9: the secret is looked up at most once in a run; when the lookup throws
\* or returns no value, the run ends with exit code 1 after exactly one
\* lookup and without any createTestCase or addToSuite request.
C9_BadSecretIsFatalNoRetry ==
  /\ secretLookups <= 1
  /\ BadSecretInput =>
       /\ pc = "Terminal"
       /\ exitCode = 1
       /\ secretLookups = 1
       /\ calls = <<>>
       /\ ~Loaded

C9_Witness ==
  /\ BadSecretInput
  /\ secretInput.o.ok
  /\ secretInput.o.v = Obj([value |-> Str(<<>>)])
  /\ pc = "Terminal"

\* The file could not be read or parsed, or its payload has no testCases
\* array.
BadFileInput ==
  /\ fileInput.seen
  /\ IF ~fileInput.o.ok THEN TRUE
     ELSE IF fileInput.o.v.t # "object" THEN TRUE
     ELSE IF "testCases" \notin DOMAIN fileInput.o.v.o THEN TRUE
     ELSE fileInput.o.v.o.testCases.t # "array"

\* C10: when the test-case file cannot be read or parsed, or has no top-level
\* testCases array, the run ends with exit code 1 without any request and
\* without processing a definition.
C10_BadFileIsFatal ==
  BadFileInput =>
    /\ pc = "Terminal"
    /\ exitCode = 1
    /\ calls = <<>>
    /\ results = <<>>
    /\ ~Loaded
    /\ idx = 1
    /\ ~summary.printed

C10_Witness ==
  /\ BadFileInput
  /\ fileInput.o.ok
  /\ fileInput.o.v.t = "object"
  /\ pc = "Terminal"
  /\ fatalError = ""

\* Every definition of the loaded list had its create request and its suite
\* request answered successfully.
AllCreatedAndLinked ==
  /\ Loaded
  /\ \A i \in Items : Succeeded("createTestCase", i) /\ Succeeded("addToSuite", i)

\* A definition ended in the per-item catch, or the run ended before the
\* loop began or in the fatal catch.
SomeFailedOrFatal ==
  \/ ~Loaded
  \/ fatalError # ""
  \/ \E i \in 1..Len(results) : results[i].kind = "Failed"

\* C11: the exit code is only ever 0 or 1 and is set exactly when the run
\* ends; it is 0 when every definition of the list was created and linked,
\* the empty list included, for which no request was issued; it is 1 when a
\* definition failed or the run ended in a fatal setup error.
C11_ExitCodeZeroOrOne ==
  /\ (pc = "Terminal") = (exitCode # NoExit)
  /\ pc = "Terminal" =>
       /\ exitCode \in {0, 1}
       /\ AllCreatedAndLinked => exitCode = 0
       /\ (AllCreatedAndLinked /\ Items = {}) => calls = <<>>
       /\ SomeFailedOrFatal => exitCode = 1

C11_Witness ==
  /\ pc = "Terminal"
  /\ Loaded
  /\ testCases.a = <<>>
  /\ exitCode = 0
  /\ calls = <<>>

\* The requests issued and not yet answered.
Outstanding == Len(calls) - Len(responses)

\* Every request issued for definition i has been answered.
Answered(i) ==
  \A op \in {"createTestCase", "addToSuite"} :
    Cardinality(CallsOf(op, i)) = Cardinality(ResponsesOf(op, i))

\* C12: at most one request is outstanding at any time, the answers come in
\* the order of the requests, the requests come in the order of the
\* definitions (create before add for one definition), and once the create
\* request of a definition has been issued every request of every earlier
\* definition has been answered.
C12_OneRequestAtATime ==
  /\ Outstanding \in {0, 1}
  /\ (Outstanding = 1) = (pc \in {"AwaitCreate", "AwaitAdd"})
  /\ \A k \in 1..Len(responses) :
       /\ responses[k].op = calls[k].op
       /\ responses[k].item = calls[k].item
  /\ \A k \in 1..Len(calls) : \A l \in 1..Len(calls) :
       k < l =>
         /\ calls[k].item <= calls[l].item
         /\ calls[k].item = calls[l].item =>
              calls[k].op = "createTestCase" /\ calls[l].op = "addToSuite"
  /\ \A k \in 1..Len(calls) :
       calls[k].op = "createTestCase" =>
         \A i \in 1..(calls[k].item - 1) : Answered(i)

C12_Witness ==
  /\ pc = "AwaitCreate"
  /\ Outstanding = 1
  /\ calls[Len(calls)].item = 2
  /\ Succeeded("createTestCase", 1)
  /\ ResponsesOf("addToSuite", 1) # {}

\* The pc values of the loop: at the top of an iteration or past the last
\* one, awaiting the create request, awaiting the suite request.
LoopPcs == {"Processing", "AwaitCreate", "AwaitAdd"}

\* The phases in the order Init, ConfigLoaded, CredentialsFetched, Ready,
\* Processing(1), ..., Processing(n), Reported, Terminal. Awaiting the secret
\* belongs to ConfigLoaded; the loop past its last definition still belongs
\* to the last Processing phase (to Ready when the list is empty).
PhaseNo ==
  CASE pc = "Init" -> 0
    [] pc \in {"ConfigLoaded", "AwaitSecret"} -> 1
    [] pc = "CredentialsFetched" -> 2
    [] pc = "Ready" -> 3
    [] pc \in LoopPcs ->
         3 + (IF idx <= Len(testCases.a) THEN idx ELSE Len(testCases.a))
    [] pc = "Reported" -> MaxCases + 4
    [] pc = "Terminal" -> MaxCases + 5

\* A step inside a phase or to the next phase of the order.
InOrderStep ==
  \/ PhaseNo' = PhaseNo
  \/ PhaseNo' = PhaseNo + 1 /\ pc' \notin {"Reported", "Terminal"}
  \/ pc \in LoopPcs /\ idx >= Len(testCases.a) /\ pc' = "Reported"
  \/ pc = "Reported" /\ pc' = "Terminal"

\* A step from a phase before Processing directly to terminal failure.
SetupFailureStep ==
  /\ pc \in {"Init", "ConfigLoaded", "AwaitSecret", "CredentialsFetched", "Ready"}
  /\ pc' = "Terminal"
  /\ exitCode' = 1

\* A step from inside the loop directly to the fatal catch.
LoopFailureStep ==
  /\ pc \in LoopPcs
  /\ pc' = "Terminal"
  /\ exitCode' = 1
  /\ fatalError' # ""

\* C13: every step of a run stays in its phase, advances to the next phase
\* of the order Init, ConfigLoaded, CredentialsFetched, Ready, Processing(1),
\* ..., Processing(n), Reported, Terminal, or goes from a phase before
\* Processing directly to terminal failure; no phase is re-entered.
C13_PhasesAdvanceInOrder == [][InOrderStep \/ SetupFailureStep]_vars

\* The order of C13 with the one further transition the script has: from a
\* Processing phase to the fatal catch, when reading the definition throws.
PhasesAdvanceInOrderOrLoopFails ==
  [][InOrderStep \/ SetupFailureStep \/ LoopFailureStep]_vars

\* The definitions that did not end as created and linked, in list order.
NotLinked ==
  SelectSeq([i \in 1..Len(testCases.a) |-> i],
            LAMBDA i : ~Succeeded("addToSuite", i))

\* Why definition i did not end as created: the validation rejected it, one
\* of its requests was rejected, or building its body threw.
ReasonOf(i) ==
  IF InvalidDefinition(Def(i)) THEN "Missing title or steps"
  ELSE IF FailedRemotely(i) # {}
  THEN responses[CHOOSE k \in FailedRemotely(i) : TRUE].outcome.message
  ELSE buildTestCaseBody(Def(i)).message

\* C14: once the summary is printed, its list of failures has one entry per
\* definition that did not end as created and linked, in processing order,
\* each with that definition's id and title and the reason it failed or was
\* skipped; it has no entry for a created definition and its length is the
\* failed count the summary reports.
C14_SummaryListsEveryFailure ==
  summary.printed =>
    /\ Len(summary.listed) = Len(NotLinked)
    /\ Len(summary.listed) = summary.failed
    /\ \A j \in 1..Len(NotLinked) :
         summary.listed[j] =
           [id |-> Get(Def(NotLinked[j]), "id"),
            title |-> Get(Def(NotLinked[j]), "title"),
            reason |-> ReasonOf(NotLinked[j])]

C14_Witness ==
  /\ pc = "Reported"
  /\ summary.created = 1
  /\ Len(summary.listed) = 2
  /\ summary.listed[1].reason = "Missing title or steps"
  /\ summary.listed[2].reason = "Request failed with status code 404"

\* What holds of the credentials in every state of a run.
CredentialsFixed ==
  /\ secretLookups <= 1
  /\ (auth = Null) = (pc \in {"Init", "ConfigLoaded", "AwaitSecret",
                              "CredentialsFetched"}
                      \/ (pc = "Terminal" /\ ~fileInput.seen))
  /\ calls # <<>> =>
       /\ secretLookups = 1
       /\ auth.t = "string"
       /\ \A k \in 1..Len(calls) :
            /\ calls[k].authorization = calls[1].authorization
            /\ calls[k].authorization = BasicPrefix \o auth.s
            /\ calls[k].org = config.o.azureDevOpsOrgUrl
            /\ calls[k].project = config.o.azureDevOpsProject
            /\ calls[k].op = "addToSuite" =>
                 /\ calls[k].plan = config.o.azureDevOpsPlanId
                 /\ calls[k].suite = config.o.azureDevOpsSuiteId

\* What holds of every step of a run.
CredentialsStep ==
  /\ secretLookups' # secretLookups => pc = "ConfigLoaded" /\ calls = <<>>
  /\ auth' # auth =>
       /\ auth = Null
       /\ pc = "CredentialsFetched"
       /\ calls = <<>>
       /\ secretLookups = 1
  /\ pc \in LoopPcs => UNCHANGED clientVars
  /\ calls' # calls => UNCHANGED clientVars

\* C18: the secret is looked up once and the Basic value is built once, both
\* before the first request; every request carries that Basic value and
\* names the configured organisation and project, every suite request the
\* configured plan and suite; issuing a request and receiving its answer
\* leave config, pat, auth and the headers unchanged.
C18_CredentialsDerivedOnce == []CredentialsFixed /\ [][CredentialsStep]_vars

C18_Witness ==
  /\ pc = "AwaitCreate"
  /\ Len(calls) = 3
  /\ calls[2].op = "addToSuite"
  /\ pat = Str(<<"A", "b">>)
  /\ calls[3].authorization = <<"B", "a", "s", "i", "c", " ", "O", "k", "F", "i">>

\* ------------------------------------------- the builder functions alone
\* Longest string given to xmlEscape, longest action or expected text of a
\* lone step, longest steps array, longest tags array.
MaxText == 3
MaxStepText == 2
MaxSteps == 3
MaxTags == 2

\* Characters of the texts: the three escaped ones, a plain one, a quote.
TextChars == {"&", "<", ">", "a", "\""}

\* What xmlEscape is given: nothing, a non-string, a short string, or a
\* string that already holds an entity.
EscapeInputs ==
  {Undef, Null, Num(5)} \cup {Str(s) : s \in SeqsUpTo(TextChars, MaxText)}
  \cup {Str(e \o t) : e \in {AmpEntity, LtEntity, GtEntity},
                      t \in {<<>>, <<"<">>, <<"l", "t", ";">>}}

\* The steps a longer array is drawn from: well-formed ones, one without
\* expected, one whose action is a number, and null.
StepValues ==
  {GoodStep,
   Obj([action |-> Str(<<">">>), expected |-> Str(<<"<", "a">>)]),
   Obj([action |-> Str(<<"\"", "&">>)]),
   Obj([action |-> Num(5), expected |-> Str(<<"a">>)]),
   Null}

\* What buildStepsXml is given: one step with any two short texts, or an
\* array of steps.
StepsInputs ==
  {Arr(<<Obj([action |-> Str(a), expected |-> Str(e)])>>) :
     a \in SeqsUpTo(TextChars, MaxStepText), e \in SeqsUpTo(TextChars, MaxStepText)}
  \cup {Arr(q) : q \in SeqsUpTo(StepValues, MaxSteps)}

\* The tags, ids and categories a definition is drawn from; no field at all
\* is one of the choices.
TagValues == {Str(<<"x">>), Str(<<"y">>), Str(<<>>)}
TagsChoices ==
  {<<>>} \cup {<<Arr(q)>> : q \in SeqsUpTo(TagValues, MaxTags)}
         \cup {<<Str(<<"x", "y">>)>>, <<Num(3)>>}
IdChoices == {<<>>, <<Str(<<>>)>>, <<Str(<<"A", "1">>)>>, <<Num(0)>>, <<Num(7)>>}
CategoryChoices == {<<>>, <<Str(<<>>)>>, <<Str(<<"S">>)>>}

\* The object with field f set when a value was chosen.
WithField(o, f, choice) == IF choice = <<>> THEN o ELSE (f :> choice[1]) @@ o

\* What buildTestCaseBody is given: a valid definition with every choice of
\* tags, id and category.
BodyInputs ==
  {Obj(WithField(WithField(WithField(
         [title |-> Str(<<"T">>), steps |-> Arr(<<GoodStep>>)],
         "tags", t), "id", i), "category", c)) :
     t \in TagsChoices, i \in IdChoices, c \in CategoryChoices}

\* One of the three functions is about to be applied to an argument.
BuilderInit ==
  /\ SyncStart
  /\ UiIdle
  /\ call = NoCall
  /\ returned = NotSeen
  /\ \/ called = "xmlEscape" /\ argument \in EscapeInputs
     \/ called = "buildStepsXml" /\ argument \in StepsInputs
     \/ called = "buildTestCaseBody" /\ argument \in BodyInputs

ApplyXmlEscape ==
  /\ called = "xmlEscape"
  /\ ~returned.seen
  /\ returned' = Seen(xmlEscape(argument))
  /\ UNCHANGED <<called, argument, syncVars, uiVars, call>>

ApplyBuildStepsXml ==
  /\ called = "buildStepsXml"
  /\ ~returned.seen
  /\ returned' = Seen(buildStepsXml(argument.a))
  /\ UNCHANGED <<called, argument, syncVars, uiVars, call>>

ApplyBuildTestCaseBody ==
  /\ called = "buildTestCaseBody"
  /\ ~returned.seen
  /\ returned' = Seen(buildTestCaseBody(argument))
  /\ UNCHANGED <<called, argument, syncVars, uiVars, call>>

BuilderNext ==
  \/ ApplyXmlEscape
  \/ ApplyBuildStepsXml
  \/ ApplyBuildTestCaseBody

BuilderSpec == BuilderInit /\ [][BuilderNext]_vars

\* The function has been applied.
Applied(f) == called = f /\ returned.seen

\* ---- reading the step markup back
StartsWith(m, p) == Len(m) >= Len(p) /\ SubSeq(m, 1, Len(p)) = p
Drop(m, n) == IF n >= Len(m) THEN <<>> ELSE SubSeq(m, n + 1, Len(m))

RECURSIVE TakeUntil(_, _)
\* The longest prefix of m without the character c.
TakeUntil(m, c) ==
  IF m = <<>> THEN <<>>
  ELSE IF Head(m) = c THEN <<>>
  ELSE <<Head(m)>> \o TakeUntil(Tail(m), c)

NoParse == [ok |-> FALSE]

\* One step element at the head of m: its id attribute, the text of its
\* first and of its second parameterizedString, and what follows it.
ParseStep(m) ==
  LET r1 == Drop(m, Len(StepOpenA))
      idText == TakeUntil(r1, "\"")
      r2 == Drop(r1, Len(idText))
      r3 == Drop(r2, Len(StepOpenB))
      first == TakeUntil(r3, "<")
      r4 == Drop(r3, Len(first))
      r5 == Drop(r4, Len(StepMid))
      second == TakeUntil(r5, "<")
      r6 == Drop(r5, Len(second))
  IN IF /\ StartsWith(m, StepOpenA)
        /\ StartsWith(r2, StepOpenB)
        /\ StartsWith(r4, StepMid)
        /\ StartsWith(r6, StepClose)
     THEN [ok |-> TRUE, id |-> idText, first |-> first, second |-> second,
           rest |-> Drop(r6, Len(StepClose))]
     ELSE NoParse

RECURSIVE ParseStepList(_)
\* The step elements up to the closing tag of the steps element.
ParseStepList(m) ==
  IF m = StepsClose THEN [ok |-> TRUE, steps |-> <<>>]
  ELSE LET s == ParseStep(m)
       IN IF ~s.ok THEN NoParse
          ELSE LET t == ParseStepList(s.rest)
               IN IF ~t.ok THEN NoParse
                  ELSE [ok |-> TRUE,
                        steps |-> <<[id |-> s.id, first |-> s.first,
                                     second |-> s.second]>> \o t.steps]

\* The step elements of a steps markup.
ParseMarkup(m) ==
  IF StartsWith(m, StepsOpen) THEN ParseStepList(Drop(m, Len(StepsOpen)))
  ELSE NoParse

\* The text a character is to be embedded as.
EntityOf(c) ==
  CASE c = "&" -> <<"&", "a", "m", "p", ";">>
    [] c = "<" -> <<"&", "l", "t", ";">>
    [] c = ">" -> <<"&", "g", "t", ";">>
    [] OTHER -> <<c>>

\* A text with each character replaced on its own.
Escaped(s) == Concat([i \in 1..Len(s) |-> EntityOf(s[i])])

\* No raw < or > and every & begins one of the three entities.
WellEscaped(t) ==
  \A p \in 1..Len(t) :
    /\ t[p] \notin {"<", ">"}
    /\ t[p] = "&" =>
         \E c \in {"&", "<", ">"} : StartsWith(Drop(t, p - 1), EntityOf(c))

\* The action or expected text of a step, empty when the field is absent.
TextOf(step, f) == IF Get(step, f).t = "string" THEN Get(step, f).s ELSE <<>>

\* An array of step objects whose action and expected are strings or absent.
PlainSteps(steps) ==
  \A k \in 1..Len(steps.a) :
    /\ steps.a[k].t = "object"
    /\ \A f \in {"action", "expected"} :
         Get(steps.a[k], f).t \in {"string", "undefined"}

\* C16: in the step markup, the text embedded for the action and for the
\* expected result of every step is that text with each &, < and > replaced
\* by &amp;, &lt; and &gt; and every other character kept; it holds no raw
\* < or > and each of its & begins one of those entities. The same holds of
\* xmlEscape applied to a string on its own.
C16_StepTextsEscaped ==
  /\ (Applied("xmlEscape") /\ argument.t = "string") =>
       /\ returned.o = Returned(Escaped(argument.s))
       /\ WellEscaped(returned.o.v)
  /\ (Applied("buildStepsXml") /\ PlainSteps(argument)) =>
       /\ returned.o.ok
       /\ LET p == ParseMarkup(returned.o.v)
          IN /\ p.ok
             /\ Len(p.steps) = Len(argument.a)
             /\ \A k \in 1..Len(argument.a) :
                  /\ p.steps[k].first = Escaped(TextOf(argument.a[k], "action"))
                  /\ p.steps[k].second = Escaped(TextOf(argument.a[k], "expected"))
                  /\ WellEscaped(p.steps[k].first)
                  /\ WellEscaped(p.steps[k].second)

C16_Witness ==
  /\ Applied("buildStepsXml")
  /\ argument = Arr(<<Obj([action |-> Str(<<"<", "&">>), expected |-> Str(<<">">>)])>>)
  /\ returned.o.ok
  /\ ParseMarkup(returned.o.v).steps[1].first =
       <<"&", "l", "t", ";", "&", "a", "m", "p", ";">>

RECURSIVE Unescaped(_)
\* An embedded text with each entity read back as its character.
Unescaped(t) ==
  IF t = <<>> THEN <<>>
  ELSE IF \E c \in {"&", "<", ">"} : StartsWith(t, EntityOf(c))
  THEN LET c == CHOOSE c \in {"&", "<", ">"} : StartsWith(t, EntityOf(c))
       IN <<c>> \o Unescaped(Drop(t, Len(EntityOf(c))))
  ELSE <<Head(t)>> \o Unescaped(Tail(t))

RECURSIVE DecimalValue(_)
\* The number a decimal text denotes.
DecimalValue(t) ==
  IF t = <<>> THEN 0
  ELSE 10 * DecimalValue(SubSeq(t, 1, Len(t) - 1))
       + ((CHOOSE d \in 1..10 : Digits[d] = t[Len(t)]) - 1)

\* C17: the markup built from n steps holds exactly n step elements; the
\* k-th one carries id k, its first text is the k-th step's action and its
\* second text the k-th step's expected result.
C17_StepsNumberedInOrder ==
  (Applied("buildStepsXml") /\ PlainSteps(argument)) =>
    /\ returned.o.ok
    /\ LET p == ParseMarkup(returned.o.v)
       IN /\ p.ok
          /\ Len(p.steps) = Len(argument.a)
          /\ \A k \in 1..Len(argument.a) :
               /\ p.steps[k].id # <<>>
               /\ DecimalValue(p.steps[k].id) = k
               /\ Unescaped(p.steps[k].first) = TextOf(argument.a[k], "action")
               /\ Unescaped(p.steps[k].second) = TextOf(argument.a[k], "expected")

C17_Witness ==
  /\ Applied("buildStepsXml")
  /\ PlainSteps(argument)
  /\ Len(argument.a) = 3
  /\ argument.a[1] # argument.a[2]
  /\ argument.a[2] # argument.a[3]
  /\ returned.o.ok
  /\ ParseMarkup(returned.o.v).steps[3].id = <<"3">>

\* ---- the tag string
\* A definition as the data model has it: tags absent or an array of
\* strings, id and category absent or strings.
TypedDefinition(tc) ==
  /\ tc.t = "object"
  /\ Get(tc, "tags").t \in {"undefined", "array"}
  /\ Get(tc, "tags").t = "array" =>
       \A k \in 1..Len(Get(tc, "tags").a) : Get(tc, "tags").a[k].t = "string"
  /\ Get(tc, "id").t \in {"undefined", "string"}
  /\ Get(tc, "category").t \in {"undefined", "string"}

\* The value the patch document gives the System.Tags field.
TagsField(body) ==
  LET k == CHOOSE k \in 1..Len(body) : body[k].path = "/fields/System.Tags"
  IN body[k].value.s

\* The explicit tags of a definition, as texts, in their order.
ExplicitTags(tc) ==
  IF Get(tc, "tags").t = "array"
  THEN [k \in 1..Len(Get(tc, "tags").a) |-> Get(tc, "tags").a[k].s]
  ELSE <<>>

\* The synthesized tag of a field, when the field passes the test given.
SynthesizedTag(tc, f, prefix, Counts(_)) ==
  IF Counts(Get(tc, f)) THEN <<prefix \o Get(tc, f).s>> ELSE <<>>

Present(x) == x.t # "undefined"
NonEmpty(x) == x.t = "string" /\ x.s # <<>>

RECURSIVE JoinedWith(_, _)
\* The texts with the separator between each two.
JoinedWith(texts, sep) ==
  IF Len(texts) = 0 THEN <<>>
  ELSE IF Len(texts) = 1 THEN texts[1]
  ELSE JoinedWith(SubSeq(texts, 1, Len(texts) - 1), sep) \o sep \o texts[Len(texts)]

\* C15 as stated: the tag string is the join with "; " of the explicit tags
\* in their order, then LogicalID:<id> when id is present, then
\* Category:<category> when category is present.
C15_Original ==
  (Applied("buildTestCaseBody") /\ TypedDefinition(argument)) =>
    /\ returned.o.ok
    /\ TagsField(returned.o.v) =
         JoinedWith(
           ExplicitTags(argument)
           \o SynthesizedTag(argument, "id",
                             <<"L", "o", "g", "i", "c", "a", "l", "I", "D", ":">>, Present)
           \o SynthesizedTag(argument, "category",
                             <<"C", "a", "t", "e", "g", "o", "r", "y", ":">>, Present),
           <<";", " ">>)

\* C15, amended: the tag string is the join with "; " of the non-empty
\* explicit tags in their order, then LogicalID:<id> when id is present and
\* not empty, then Category:<category> when category is present and not
\* empty.
C15_TagStringOfNonEmptyParts ==
  (Applied("buildTestCaseBody") /\ TypedDefinition(argument)) =>
    /\ returned.o.ok
    /\ TagsField(returned.o.v) =
         JoinedWith(
           SelectSeq(ExplicitTags(argument), LAMBDA t : t # <<>>)
           \o SynthesizedTag(argument, "id",
                             <<"L", "o", "g", "i", "c", "a", "l", "I", "D", ":">>, NonEmpty)
           \o SynthesizedTag(argument, "category",
                             <<"C", "a", "t", "e", "g", "o", "r", "y", ":">>, NonEmpty),
           <<";", " ">>)

C15_Witness ==
  /\ Applied("buildTestCaseBody")
  /\ Get(argument, "tags") = Arr(<<Str(<<"y">>), Str(<<"x">>)>>)
  /\ Get(argument, "id") = Str(<<"A", "1">>)
  /\ Get(argument, "category") = Str(<<"S">>)
  /\ returned.o.ok
  /\ TagsField(returned.o.v) =
       <<"y", ";", " ", "x", ";", " ", "L", "o", "g", "i", "c", "a", "l", "I", "D",
         ":", "A", "1", ";", " ", "C", "a", "t", "e", "g", "o", "r", "y", ":", "S">>


\* ---------------------------------------------------------------------
\* The UI test suite: the report-outage dialog and the scenarios that
\* drive it.  The page objects and the test scripts are the repository's
\* code; the pages they drive belong to the support website, whose
\* behaviour is taken from the specification's description of the dialog.
\* ---------------------------------------------------------------------

\* CHARACTER_LIMITS.ADDITIONAL_FEEDBACK
ADDITIONAL_FEEDBACK == 4000

\* enum WhatsNotWorkingOption, in declaration order.
WhatsNotWorkingOption ==
  <<"Clubs", "Friends list", "Messaging", "Parties and invites",
    "Leaderboards", "Other">>

\* The options that have a radio label of their own.
RadioOptions == SelectSeq(WhatsNotWorkingOption, LAMBDA o : o # "Other")

\* The locators the page objects declare, by the layer of the site that
\* shows them.
Elements ==
  [home |-> {"mainHeading", "searchBox", "xboxStatusLink"},
   status |-> {"pageHeading", "servicesHeading", "moreOptions"},
   menu |-> {"reportAnOutageMenuItem"},
   form |->
     {"dialog", "dialogTitle", "closeButton", "thankYouMessage",
      "questionsCount", "timeToComplete", "question1Label", "radio",
      "optionLabel", "otherTextbox", "question2Label",
      "additionalFeedbackTextbox", "charactersRemain",
      "privacyStatementLink", "submitFeedbackButton"},
   confirm |->
     {"confirmationHeading", "confirmationMessage", "confirmYesButton",
      "confirmNoButton"}]

\* The texts a page's title and address contain.
TextsOf(where) ==
  CASE where = "home" -> {"Xbox Support", "/en-US"}
    [] where = "status" -> {"Xbox Status", "/en-US", "/xbox-live-status"}
    [] OTHER -> {}

\* The site just after a page has loaded: nothing open, nothing answered.
PageLoaded(where) ==
  [where |-> where, layer |-> "page", checked |-> "", other |-> 0,
   feedback |-> 0, submit |-> FALSE]

\* The element the operation names is on screen.  The remaining-characters
\* text is looked up by the number it shows.
Visible(s, op) ==
  CASE op.on \in Elements.home -> s.where = "home" /\ s.layer = "page"
    [] op.on \in Elements.status -> s.where = "status" /\ s.layer = "page"
    [] op.on \in Elements.menu -> s.where = "status" /\ s.layer = "menu"
    [] op.on = "charactersRemain" ->
         s.layer = "form" /\ ADDITIONAL_FEEDBACK - s.feedback = op.n
    [] op.on \in Elements.form -> s.layer = "form"
    [] op.on \in Elements.confirm -> s.layer = "confirm"
    [] OTHER -> FALSE

\* The site after a click on a visible element.
Clicked(s, op) ==
  CASE op.on = "xboxStatusLink" -> PageLoaded("status")
    [] op.on = "moreOptions" -> [s EXCEPT !.layer = "menu"]
    [] op.on = "reportAnOutageMenuItem" ->
         [PageLoaded("status") EXCEPT !.layer = "form"]
    [] op.on = "optionLabel" ->
         [s EXCEPT !.checked = op.opt, !.submit = TRUE]
    [] op.on = "closeButton" ->
         [s EXCEPT !.layer = IF s.checked # "" \/ s.other > 0 THEN "confirm" ELSE "page"]
    [] op.on = "confirmNoButton" -> [s EXCEPT !.layer = "form"]
    [] op.on = "confirmYesButton" -> PageLoaded("status")
    [] OTHER -> s

\* The site after a textbox has been filled with n characters.  The site's
\* code is not in the repository: this is what the OtherOption and the
\* AdditionalFeedback test require of it, and no more.  The textbox holds
\* the text (toHaveValue, the characters that remain), the submit control
\* is enabled once Other holds text, and typing or clearing the additional
\* feedback leaves the control as it was.
Filled(s, op) ==
  CASE op.on = "otherTextbox" ->
         [s EXCEPT !.other = op.n, !.submit = (s.submit \/ op.n > 0)]
    [] op.on = "additionalFeedbackTextbox" -> [s EXCEPT !.feedback = op.n]
    [] OTHER -> s

\* What an expectation of the driver finds on the site.
Holds(s, op) ==
  CASE op.how = "toBeVisible" -> Visible(s, op)
    [] op.how = "notToBeVisible" -> ~Visible(s, op)
    [] op.how = "toBeEnabled" -> Visible(s, op) /\ s.submit
    [] op.how = "toBeDisabled" -> Visible(s, op) /\ ~s.submit
    [] op.how = "toBeChecked" -> Visible(s, op) /\ s.checked = op.opt
    [] op.how = "toHaveValue" -> Visible(s, op) /\ s.other = op.n
    [] op.how = "toHaveText" -> Visible(s, op)
    [] op.how = "toHaveAttribute" -> Visible(s, op)
    [] op.how = "toContain" -> op.opt \in TextsOf(s.where)
    [] OTHER -> FALSE

\* The page object whose constructor declares a locator over its this.page;
\* "page" for what names no locator of a page object.
DeclaredBy(on) ==
  CASE on \in Elements.home -> "home"
    [] on \in Elements.status \cup Elements.menu -> "status"
    [] on \in Elements.form \cup Elements.confirm -> "dialog"
    [] OTHER -> "page"

\* One awaited call on the driver: what it does (do), the locator it acts
\* on (on), the option or text it names (opt), the matcher of an
\* expectation (how), the number of characters or the count it carries
\* (n), and whose page it reaches (by): the page of the object that
\* declares the locator, the test's page fixture when there is none.
Op(do, on, opt, how, n) ==
  [do |-> do, on |-> on, opt |-> opt, how |-> how, n |-> n,
   by |-> DeclaredBy(on)]

\* Operations issued inside a method of a page object, or on the test's
\* page fixture ("page"): each reaches that object's this.page.
Through(object, ops) == [k \in 1..Len(ops) |-> [ops[k] EXCEPT !.by = object]]
Pause == Op("pause", "page", "", "", 0)
Expect(on, how) == Op("expect", on, "", how, 0)

\* BasePage.safeClick: wait for the locator to be visible, then click it.
safeClick(on) == <<Op("waitFor", on, "", "", 0), Op("click", on, "", "", 0)>>

\* BasePage.navigateTo followed by BasePage.waitForPageLoad, as both
\* pages' goto() call them.
goto(path) ==
  Through(IF path = "/en-US/" THEN "home" ELSE "status",
          <<Op("goto", "page", path, "", 0), Pause, Pause>>)

\* XboxSupportHomePage.verifyPageLoaded and XboxStatusPage.verifyPageLoaded
verifyPageLoaded(where) ==
  Through(where,
    IF where = "home"
    THEN <<Expect("mainHeading", "toBeVisible"),
           Expect("searchBox", "toBeVisible"),
           Op("expect", "page", "/en-US", "toContain", 0)>>
    ELSE <<Expect("pageHeading", "toBeVisible"),
           Expect("servicesHeading", "toBeVisible"),
           Op("expect", "page", "/xbox-live-status", "toContain", 0)>>)

\* XboxSupportHomePage.navigateToXboxStatus
navigateToXboxStatus ==
  Through("home",
    safeClick("xboxStatusLink")
      \o <<Op("expect", "page", "/xbox-live-status", "toContain", 0)>>)

\* XboxStatusPage.reportOutageForService, with clickMoreOptionsForService,
\* the construction of the dialog object and
\* ReportOutageDialog.waitForDialogToOpen.
reportOutageForService ==
  Through("status",
    safeClick("moreOptions") \o <<Pause>>
      \o safeClick("reportAnOutageMenuItem")
      \o <<Op("new", "dialog", "", "", 0)>>)
    \o Through("dialog", <<Expect("dialogTitle", "toBeVisible")>>)

\* The five radio locators, each expected to be visible.
RadiosVisible ==
  [i \in 1..Len(RadioOptions) |->
     Op("expect", "radio", RadioOptions[i], "toBeVisible", 0)]

\* ReportOutageDialog.verifyDialogDisplayed
verifyDialogDisplayed ==
  <<Expect("dialogTitle", "toBeVisible"), Expect("closeButton", "toBeVisible"),
    Expect("thankYouMessage", "toBeVisible"),
    Expect("questionsCount", "toBeVisible"),
    Expect("timeToComplete", "toBeVisible")>>

\* ReportOutageDialog.verifyQuestion1Displayed
verifyQuestion1Displayed ==
  <<Expect("question1Label", "toBeVisible")>> \o RadiosVisible
    \o <<Expect("otherTextbox", "toBeVisible")>>

\* ReportOutageDialog.verifyQuestion2Displayed
verifyQuestion2Displayed ==
  <<Expect("question2Label", "toBeVisible"),
    Expect("additionalFeedbackTextbox", "toBeVisible"),
    Op("expect", "charactersRemain", "", "toBeVisible", ADDITIONAL_FEEDBACK)>>

\* ReportOutageDialog.verifyPrivacyStatementLink
verifyPrivacyStatementLink ==
  <<Expect("privacyStatementLink", "toBeVisible"),
    Expect("privacyStatementLink", "toHaveAttribute")>>

\* ReportOutageDialog.verifySubmitButtonDisabled / verifySubmitButtonEnabled
verifySubmitButtonDisabled == <<Expect("submitFeedbackButton", "toBeDisabled")>>
verifySubmitButtonEnabled == <<Expect("submitFeedbackButton", "toBeEnabled")>>

\* ReportOutageDialog.selectWhatsNotWorkingOption: click the option's
\* label (the textbox for Other), then wait 300 ms.
selectWhatsNotWorkingOption(option) ==
  Through("dialog",
    <<IF option = "Other" THEN Op("click", "otherTextbox", "", "", 0)
      ELSE Op("click", "optionLabel", option, "", 0),
      Pause>>)

\* ReportOutageDialog.enterOtherText / enterAdditionalFeedback, by the
\* number of characters typed.
enterOtherText(n) == <<Op("fill", "otherTextbox", "", "", n)>>
enterAdditionalFeedback(n) == <<Op("fill", "additionalFeedbackTextbox", "", "", n)>>

\* ReportOutageDialog.clickCloseButton
clickCloseButton == safeClick("closeButton")

\* ReportOutageDialog.verifyConfirmationDialogDisplayed
verifyConfirmationDialogDisplayed ==
  <<Expect("confirmationHeading", "toBeVisible"),
    Expect("confirmationMessage", "toBeVisible"),
    Expect("confirmYesButton", "toBeVisible"),
    Expect("confirmNoButton", "toBeVisible")>>

\* ReportOutageDialog.confirmYes: click Yes, expect the dialog gone.
confirmYes ==
  safeClick("confirmYesButton") \o <<Expect("dialog", "notToBeVisible")>>

\* confirmNo with the click on the other button of the prompt.
confirmNoClicksYes ==
  safeClick("confirmYesButton") \o <<Expect("dialogTitle", "toBeVisible")>>

\* ReportOutageDialog.confirmNo: click No, expect the dialog's title back.
confirmNo ==
  safeClick("confirmNoButton") \o <<Expect("dialogTitle", "toBeVisible")>>

\* ReportOutageDialog.verifyDialogClosed
verifyDialogClosed == <<Expect("dialogTitle", "notToBeVisible")>>

\* TC-30648805: the twelve steps of the main scenario.
MainTest ==
  Concat(<<
    goto("/en-US/"), verifyPageLoaded("home"),
    <<Op("expect", "page", "Xbox Support", "toContain", 0)>>,
    navigateToXboxStatus, verifyPageLoaded("status"),
    <<Op("expect", "page", "Xbox Status", "toContain", 0),
      Op("expect", "page", "/xbox-live-status", "toContain", 0)>>,
    reportOutageForService, verifyDialogDisplayed,
    <<Expect("dialogTitle", "toHaveText"),
      Expect("thankYouMessage", "toBeVisible"),
      Expect("questionsCount", "toBeVisible"),
      Expect("timeToComplete", "toBeVisible")>>,
    verifyQuestion1Displayed, RadiosVisible,
    <<Expect("otherTextbox", "toBeVisible")>>,
    verifyQuestion2Displayed,
    <<Op("expect", "charactersRemain", "", "toHaveText", ADDITIONAL_FEEDBACK)>>,
    verifyPrivacyStatementLink,
    <<Expect("privacyStatementLink", "toHaveAttribute")>>,
    verifySubmitButtonDisabled,
    selectWhatsNotWorkingOption("Clubs"), verifySubmitButtonEnabled,
    clickCloseButton, verifyConfirmationDialogDisplayed,
    <<Expect("confirmationHeading", "toHaveText"),
      Expect("confirmationMessage", "toBeVisible")>>,
    confirmNo,
    <<Expect("dialogTitle", "toBeVisible"),
      Op("expect", "radio", "Clubs", "toBeChecked", 0)>>,
    clickCloseButton, verifyConfirmationDialogDisplayed, confirmYes,
    verifyDialogClosed >>)

\* TC-30648805-AllOptions: every option but Other, each in a dialog opened
\* anew.
AllOptionsTest ==
  goto("/en-US/xbox-live-status") \o verifyPageLoaded("status")
    \o Concat([i \in 1..Len(RadioOptions) |->
         Concat(<<reportOutageForService,
                  selectWhatsNotWorkingOption(RadioOptions[i]),
                  verifySubmitButtonEnabled, clickCloseButton, confirmYes>>)])

\* TC-30648805-OtherOption: 'Custom issue description' has 24 characters.
OtherOptionTest ==
  Concat(<<goto("/en-US/xbox-live-status"), reportOutageForService,
           enterOtherText(24),
           <<Op("expect", "otherTextbox", "", "toHaveValue", 24)>>,
           verifySubmitButtonEnabled, clickCloseButton, confirmYes>>)

\* TC-30648805-AdditionalFeedback: 'This is a test feedback message.' has
\* 32 characters; the remaining-characters text is looked up on the test's
\* page fixture.
AdditionalFeedbackTest ==
  Concat(<<goto("/en-US/xbox-live-status"), reportOutageForService,
           selectWhatsNotWorkingOption("Clubs"), enterAdditionalFeedback(32),
           Through("page",
             <<Op("expect", "charactersRemain", "", "toBeVisible",
                  ADDITIONAL_FEEDBACK - 32)>>),
           <<Op("clear", "additionalFeedbackTextbox", "", "", 0)>>,
           verifySubmitButtonEnabled, clickCloseButton, confirmYes>>)

\* The scenarios of the describe block and the operations of each.
Scenarios == {"Main", "AllOptions", "OtherOption", "AdditionalFeedback"}
Script(name) ==
  CASE name = "Main" -> MainTest
    [] name = "AllOptions" -> AllOptionsTest
    [] name = "OtherOption" -> OtherOptionTest
    [] name = "AdditionalFeedback" -> AdditionalFeedbackTest
    [] OTHER -> <<>>

\* What a UI scenario leaves alone.
outsideUi == <<syncVars, builderVars, call>>

\* The operation the scenario is about to run; none once it has ended.
Running == verdict = "running" /\ at <= Len(Script(scenario))
CurrentOp == Script(scenario)[at]

\* An awaited call ends: the scenario goes on to the next operation when
\* the call succeeded and stops as failed when it threw.
Ended(ok, after) ==
  /\ site' = IF ok THEN after ELSE site
  /\ at' = IF ok THEN at + 1 ELSE at
  /\ verdict' = IF ok THEN verdict ELSE "failed"
  /\ UNCHANGED <<scenario, objects, outsideUi>>

\* page.goto: the page at the path loads.
GotoStep ==
  /\ Running /\ CurrentOp.do = "goto"
  /\ Ended(TRUE, PageLoaded(IF CurrentOp.opt = "/en-US/" THEN "home" ELSE "status"))

\* page.waitForLoadState / page.waitForTimeout
PauseStep ==
  /\ Running /\ CurrentOp.do = "pause"
  /\ Ended(TRUE, site)

\* locator.waitFor({state: 'visible'})
WaitForStep ==
  /\ Running /\ CurrentOp.do = "waitFor"
  /\ Ended(Visible(site, CurrentOp), site)

\* locator.click
ClickStep ==
  /\ Running /\ CurrentOp.do = "click"
  /\ Ended(Visible(site, CurrentOp), Clicked(site, CurrentOp))

\* locator.fill
FillStep ==
  /\ Running /\ CurrentOp.do = "fill"
  /\ Ended(Visible(site, CurrentOp), Filled(site, CurrentOp))

\* locator.clear
ClearStep ==
  /\ Running /\ CurrentOp.do = "clear"
  /\ Ended(Visible(site, CurrentOp), Filled(site, [CurrentOp EXCEPT !.n = 0]))

\* expect(...)
ExpectStep ==
  /\ Running /\ CurrentOp.do = "expect"
  /\ Ended(Holds(site, CurrentOp), site)

\* The test function returns: the scenario has passed.
Pass ==
  /\ verdict = "running" /\ at = Len(Script(scenario)) + 1
  /\ verdict' = "passed"
  /\ UNCHANGED <<scenario, at, site, objects, outsideUi>>

\* The object whose page an operation reaches: the home page object, the
\* status page object or the dialog object; "page" for what goes to the
\* test's page fixture itself.
OwnerOf(op) == op.by

\* beforeEach that builds the page objects only when the describe-level
\* variables hold none yet, as a beforeAll would.
BeforeEachOnce ==
  /\ verdict = "setup"
  /\ objects' = IF objects.home = 0
                THEN [objects EXCEPT !.home = objects.page,
                                     !.status = objects.page]
                ELSE objects
  /\ verdict' = "running"
  /\ UNCHANGED <<scenario, at, site, outsideUi>>

\* beforeEach: the describe-level variables get a home page object and a
\* status page object built over the test's page.
BeforeEach ==
  /\ verdict = "setup"
  /\ objects' = [objects EXCEPT !.home = objects.page,
                                !.status = objects.page]
  /\ verdict' = "running"
  /\ UNCHANGED <<scenario, at, site, outsideUi>>

\* new ReportOutageDialog(this.page) inside reportOutageForService: the
\* dialog object is built over the page of the status page object.
ConstructStep ==
  /\ Running /\ CurrentOp.do = "new"
  /\ objects' = [objects EXCEPT !.dialog = objects.status]
  /\ at' = at + 1
  /\ UNCHANGED <<scenario, verdict, site, outsideUi>>

\* The describe block is serial: after a test has passed, the worker runs
\* the next test of the block, on a page of its own.
NextTest ==
  LET order ==
        <<"Main", "AllOptions", "OtherOption", "AdditionalFeedback">>
  IN  /\ verdict = "passed"
      /\ \E i \in 1..(Len(order) - 1) :
           /\ scenario = order[i]
           /\ scenario' = order[i + 1]
      /\ at' = 1
      /\ verdict' = "setup"
      /\ site' = PageLoaded("blank")
      /\ objects' = [objects EXCEPT !.page = @ + 1]
      /\ UNCHANGED outsideUi

\* The worker is about to run a test of the block on a fresh page; the
\* describe-level variables hold no page object yet.
UiInit ==
  /\ SyncStart
  /\ BuilderIdle
  /\ call = NoCall
  /\ scenario \in Scenarios
  /\ at = 1
  /\ verdict = "setup"
  /\ site = PageLoaded("blank")
  /\ objects = [page |-> 1, home |-> 0, status |-> 0, dialog |-> 0]

UiNext ==
  \/ BeforeEach
  \/ ConstructStep
  \/ NextTest
  \/ GotoStep
  \/ PauseStep
  \/ WaitForStep
  \/ ClickStep
  \/ FillStep
  \/ ClearStep
  \/ ExpectStep
  \/ Pass

UiSpec == UiInit /\ [][UiNext]_vars


\* The operation the scenario is running succeeds in this step: a call of
\* the given kind on the given locator.
Does(do, on) ==
  /\ Running
  /\ CurrentOp.do = do
  /\ CurrentOp.on = on
  /\ at' = at + 1

\* No expectation and no wait of a scenario has failed.
NoScenarioFailed == verdict # "failed"

\* The dialog is open, with or without the confirmation prompt over it.
DialogOpen(s) == s.layer \in {"form", "confirm"}

\* C19, step by step: selecting an option enables the submit control; the
\* close control, clicked while an option is selected, opens the
\* confirmation prompt; No leads back to the dialog with the same option
\* checked; Yes closes the dialog.
DialogFlowStep ==
  /\ Does("click", "optionLabel") =>
       site'.submit /\ site'.checked = CurrentOp.opt /\ site'.layer = "form"
  /\ Does("click", "closeButton") /\ site.checked # "" =>
       site'.layer = "confirm"
  /\ Does("click", "confirmNoButton") =>
       site'.layer = "form" /\ site'.checked = site.checked
  /\ Does("click", "confirmYesButton") => ~DialogOpen(site')

\* C19: in the 'Tell us more' dialog flow, selecting any one option
\* enables the submit control, clicking the close control while a
\* selection is made opens the confirmation prompt, No on the prompt
\* returns to the dialog with the prior selection still checked and Yes
\* closes the dialog entirely; the scenarios that drive the flow meet every
\* one of their expectations.
C19_DialogFlow == []NoScenarioFailed /\ [][DialogFlowStep]_vars

\* The main scenario has passed: it selected Clubs, closed, chose No, found
\* Clubs still checked, closed again, chose Yes and found the dialog gone.
C19_Witness ==
  /\ scenario = "Main"
  /\ verdict = "passed"
  /\ ~DialogOpen(site)


\* ---------------------------------------------------------------------
\* The helpers called on their own: retryAction and the three BasePage
\* methods that wrap a driver call.  A call is a record: the helper (fn),
\* its arguments (arg), where it is (pc), retryAction's loop variables
\* (attempt, lastError), the driver calls, action invocations and timers
\* it has issued (log) and how it settled (result; a rejection carries the
\* value thrown in its message field).
\* ---------------------------------------------------------------------

\* The largest maxRetries the calls are drawn with.
MaxAttempts == 4

\* Pow2 that doubles the exponent instead.
TwiceOf(k) == 2 * k

RECURSIVE Pow2(_)
\* Math.pow(2, k) for a natural k
Pow2(k) == IF k = 0 THEN 1 ELSE 2 * Pow2(k - 1)

\* What the action handed to retryAction, or a call on the driver, can
\* throw.
Errors == {"TimeoutError", "Error"}

\* An entry of a call's log: an action invocation, a driver call or a
\* timer (ev), the locator or path it is about (on), its timeout or delay
\* (ms) and how it ended (out: "ok", the error thrown, "" for a timer).
Event(ev, on, ms, out) == [ev |-> ev, on |-> on, ms |-> ms, out |-> out]

\* The calls that can be made: arguments drawn from small sets, the
\* defaults of the signatures among them.
HelperCalls ==
  LET start(fn, arg) ==
        [fn |-> fn, arg |-> arg, pc |-> "start", attempt |-> 0,
         lastError |-> Undef, log |-> <<>>, result |-> NotSeen]
  IN  {start("retryAction", [maxRetries |-> m, initialDelay |-> d]) :
         m \in -1..MaxAttempts, d \in {0, 100, 1000}}
      \cup {start("navigateTo", [on |-> p, waitUntil |-> w]) :
              p \in {"/en-US/", "/en-US/xbox-live-status"},
              w \in {"domcontentloaded", "load"}}
      \cup {start(fn, [on |-> l, timeout |-> t]) :
              fn \in {"safeClick", "isVisible"},
              l \in {"xboxStatusLink", "closeButton"},
              t \in {5000, 10000}}

\* What a call leaves alone.
outsideCall == <<syncVars, builderVars, uiVars>>

\* The call logs an event and goes on, settling when a result is given.
Goes(event, pc2, result) ==
  /\ call' = [call EXCEPT !.log = Append(@, event), !.pc = pc2,
                          !.result = result]
  /\ UNCHANGED outsideCall

\* A driver call that ended as out settles the method that awaits it.
Settled(out) == Seen(IF out = "ok" THEN Returned(Undef) ELSE Thrown(out))

\* AttemptReturns without the loop condition: a first attempt is always
\* made.
AttemptReturnsUnguarded ==
  /\ call.fn = "retryAction" /\ call.pc = "start"
  /\ call.attempt < call.arg.maxRetries \/ call.attempt = 0
  /\ Goes(Event("action", "", 0, "ok"), "done",
          Seen(Returned(Num(call.attempt))))

\* retryAction, lines 28-30: the loop condition holds, the action is
\* invoked and its promise resolves; the value is returned at once.
AttemptReturns ==
  /\ call.fn = "retryAction" /\ call.pc = "start"
  /\ call.attempt < call.arg.maxRetries
  /\ Goes(Event("action", "", 0, "ok"), "done",
          Seen(Returned(Num(call.attempt))))

\* AttemptThrows that keeps the first error instead of the latest.
AttemptThrowsKeepsFirst ==
  /\ call.fn = "retryAction" /\ call.pc = "start"
  /\ call.attempt < call.arg.maxRetries
  /\ \E e \in Errors :
       call' =
         IF call.attempt < call.arg.maxRetries - 1
         THEN [call EXCEPT
                 !.lastError = IF call.attempt = 0 THEN e ELSE @, !.pc = "delay",
                 !.log = @ \o <<Event("action", "", 0, e),
                                Event("setTimeout", "",
                                      call.arg.initialDelay
                                        * Pow2(call.attempt), "")>>]
         ELSE [call EXCEPT
                 !.lastError = IF call.attempt = 0 THEN e ELSE @, !.attempt = @ + 1,
                 !.log = Append(@, Event("action", "", 0, e))]
  /\ UNCHANGED outsideCall

\* retryAction, lines 28-36: the action is invoked and throws; the error
\* is kept and, unless this was the last attempt, a timer of
\* initialDelay * 2^attempt is started and awaited.
AttemptThrows ==
  /\ call.fn = "retryAction" /\ call.pc = "start"
  /\ call.attempt < call.arg.maxRetries
  /\ \E e \in Errors :
       call' =
         IF call.attempt < call.arg.maxRetries - 1
         THEN [call EXCEPT
                 !.lastError = e, !.pc = "delay",
                 !.log = @ \o <<Event("action", "", 0, e),
                                Event("setTimeout", "",
                                      call.arg.initialDelay
                                        * Pow2(call.attempt), "")>>]
         ELSE [call EXCEPT
                 !.lastError = e, !.attempt = @ + 1,
                 !.log = Append(@, Event("action", "", 0, e))]
  /\ UNCHANGED outsideCall

\* The timer fires: the awaited promise resolves and the loop goes to its
\* next round.
DelayEnds ==
  /\ call.fn = "retryAction" /\ call.pc = "delay"
  /\ call' = [call EXCEPT !.attempt = @ + 1, !.pc = "start",
                          !.log = Append(@, Event("fired", "", 0, ""))]
  /\ UNCHANGED outsideCall

\* retryAction, line 40: the loop is over, lastError is thrown.
ThrowLastError ==
  /\ call.fn = "retryAction" /\ call.pc = "start"
  /\ ~(call.attempt < call.arg.maxRetries)
  /\ call' = [call EXCEPT !.pc = "done",
                          !.result = Seen(Thrown(call.lastError))]
  /\ UNCHANGED outsideCall

\* BasePage.navigateTo: one page.goto with a timeout of 30 s; the method
\* resolves when it resolves and rejects with what it throws.
NavigateTo ==
  /\ call.fn = "navigateTo" /\ call.pc = "start"
  /\ \E out \in {"ok"} \cup Errors :
       Goes(Event("goto", call.arg.on, 30000, out), "done", Settled(out))

\* SafeClickWait that goes on to the click however the wait ended.
SafeClickWaitIgnored ==
  /\ call.fn = "safeClick" /\ call.pc = "start"
  /\ \E out \in {"ok"} \cup Errors :
       Goes(Event("waitFor", call.arg.on, call.arg.timeout, out), "click",
            NotSeen)

\* BasePage.safeClick, line 77: the wait for the locator to be visible
\* ends; the click is next when it resolved, and the method rejects when
\* it threw.
SafeClickWait ==
  /\ call.fn = "safeClick" /\ call.pc = "start"
  /\ \E out \in {"ok"} \cup Errors :
       Goes(Event("waitFor", call.arg.on, call.arg.timeout, out),
            IF out = "ok" THEN "click" ELSE "done",
            IF out = "ok" THEN NotSeen ELSE Settled(out))

\* BasePage.safeClick, line 78: the click is issued and ends.
SafeClickClick ==
  /\ call.fn = "safeClick" /\ call.pc = "click"
  /\ \E out \in {"ok"} \cup Errors :
       Goes(Event("click", call.arg.on, call.arg.timeout, out), "done",
            Settled(out))

\* IsVisible whose catch takes timeouts only: any other error leaves the
\* method.
IsVisibleCatchesTimeout ==
  /\ call.fn = "isVisible" /\ call.pc = "start"
  /\ \E out \in {"ok"} \cup Errors :
       Goes(Event("waitFor", call.arg.on, call.arg.timeout, out), "done",
            IF out = "Error" THEN Settled(out)
            ELSE Seen(Returned(out = "ok")))

\* BasePage.isVisible: the wait inside the try ends; true when it
\* resolved, false when it threw.
IsVisible ==
  /\ call.fn = "isVisible" /\ call.pc = "start"
  /\ \E out \in {"ok"} \cup Errors :
       Goes(Event("waitFor", call.arg.on, call.arg.timeout, out), "done",
            Seen(Returned(out = "ok")))

\* One of the helpers is about to be called.
HelperInit ==
  /\ SyncStart
  /\ BuilderIdle
  /\ UiIdle
  /\ call \in HelperCalls

HelperNext ==
  \/ AttemptReturns
  \/ AttemptThrows
  \/ DelayEnds
  \/ ThrowLastError
  \/ NavigateTo
  \/ SafeClickWait
  \/ SafeClickClick
  \/ IsVisible

HelperSpec == HelperInit /\ [][HelperNext]_vars


\* The call of the helper has settled.
Resolved == call.result.seen /\ call.result.o.ok
Rejected == call.result.seen /\ ~call.result.o.ok

\* The positions of a log that hold an event of the given kind, in order.
Positions(log, ev) ==
  SelectSeq([i \in 1..Len(log) |-> i], LAMBDA i : log[i].ev = ev)

\* How the invocations of the action ended, in order.
Invocations ==
  LET where == Positions(call.log, "action")
  IN  [k \in 1..Len(where) |-> call.log[where[k]].out]

\* C25: retryAction invokes the action at most maxRetries times; it
\* returns the value of the first successful invocation and does not
\* invoke the action again; when all maxRetries invocations failed it
\* rejects with the error the last of them threw.
C25_RetryAtMostMaxRetries ==
  call.fn = "retryAction" =>
    /\ Len(Invocations) <= IF call.arg.maxRetries > 0
                           THEN call.arg.maxRetries ELSE 0
    /\ \A k \in 1..Len(Invocations) :
         Invocations[k] = "ok" =>
           /\ k = Len(Invocations)
           /\ call.log[Len(call.log)].ev = "action"
           /\ call.result = Seen(Returned(Num(k - 1)))
    /\ Resolved => Len(Invocations) > 0 /\ Invocations[Len(Invocations)] = "ok"
    /\ Rejected /\ call.arg.maxRetries > 0 =>
         /\ Len(Invocations) = call.arg.maxRetries
         /\ \A k \in 1..Len(Invocations) : Invocations[k] # "ok"
         /\ call.result.o.message = Invocations[Len(Invocations)]

\* Three invocations failed, the first and the last with different
\* errors, and the call rejected with the last one.
C25_Witness ==
  /\ call.fn = "retryAction"
  /\ call.arg.maxRetries = 3
  /\ Rejected
  /\ Len(Invocations) = 3
  /\ Invocations[1] # Invocations[3]
  /\ call.result.o.message = Invocations[3]

\* The delays of the timers started, in order.
Delays ==
  LET where == Positions(call.log, "setTimeout")
  IN  [k \in 1..Len(where) |-> call.log[where[k]].ms]

\* C26: retryAction backs off exponentially.  After the failed attempt k
\* (0-based) with k < maxRetries - 1 a timer of initialDelay * 2^k is
\* started: the first delay is initialDelay and each later one is twice
\* the one before.  The next attempt starts only after the timer has
\* fired, and no timer is started after the final failed attempt.
C26_ExponentialBackoff ==
  call.fn = "retryAction" =>
    /\ \A k \in 1..Len(Delays) :
         Delays[k] = IF k = 1 THEN call.arg.initialDelay
                     ELSE 2 * Delays[k - 1]
    /\ \A i \in 1..Len(call.log) :
         LET e == call.log[i]
             k == Len(Positions(SubSeq(call.log, 1, i - 1), "action"))
         IN  /\ e.ev = "action" /\ e.out # "ok" /\ k < call.arg.maxRetries - 1
               => /\ i < Len(call.log)
                  /\ call.log[i + 1].ev = "setTimeout"
                  /\ Len(Delays) >= k + 1
             /\ e.ev = "action" /\ e.out # "ok"
                  /\ k >= call.arg.maxRetries - 1
               => i = Len(call.log)
             /\ e.ev = "action" /\ i > 1 => call.log[i - 1].ev = "fired"
             /\ e.ev = "setTimeout" /\ i < Len(call.log)
               => call.log[i + 1].ev = "fired"

\* Three attempts failed and three timers were awaited, each twice the one
\* before, before the fourth attempt started.
C26_Witness ==
  /\ call.fn = "retryAction"
  /\ call.arg.initialDelay = 100
  /\ Len(Invocations) = 4
  /\ Delays = <<100, 200, 400>>

\* C30: called with maxRetries less than or equal to 0, retryAction never
\* invokes the action, takes no delay, and rejects with undefined.
C30_NoAttemptRejectsUndefined ==
  call.fn = "retryAction" /\ call.arg.maxRetries <= 0 =>
    /\ call.log = <<>>
    /\ ~Resolved
    /\ call.pc = "done" => call.result = Seen(Thrown(Undef))

\* A call with maxRetries = 0 has rejected with undefined.
C30_Witness ==
  /\ call.fn = "retryAction"
  /\ call.arg.maxRetries = 0
  /\ call.log = <<>>
  /\ call.result = Seen(Thrown(Undef))


\* C21: BasePage.navigateTo retries the navigation when the page load
\* fails, each attempt bounded by the 30-second timeout: it does not
\* reject while only one page.goto has been attempted.
C21_NavigateToRetries ==
  call.fn = "navigateTo" /\ Rejected =>
    /\ Len(Positions(call.log, "goto")) >= 2
    /\ \A i \in 1..Len(call.log) : call.log[i].ms = 30000

\* C22: BasePage.safeClick issues the click only after the wait for the
\* element to be visible has succeeded; when the wait fails, the click is
\* never issued and the failure propagates to the caller.
C22_ClickOnlyAfterVisible ==
  call.fn = "safeClick" =>
    /\ \A i \in 1..Len(call.log) :
         call.log[i].ev = "click" =>
           /\ i = 2
           /\ call.log[1] =
                Event("waitFor", call.log[i].on, call.arg.timeout, "ok")
    /\ Len(call.log) >= 1 /\ call.log[1].out # "ok" =>
         /\ Len(call.log) = 1
         /\ call.pc = "done"
         /\ call.result = Seen(Thrown(call.log[1].out))

\* The wait of a safeClick timed out: the call rejected with the timeout
\* and no click was issued.
C22_Witness ==
  /\ call.fn = "safeClick"
  /\ call.log = <<Event("waitFor", call.arg.on, call.arg.timeout,
                        "TimeoutError")>>
  /\ call.result = Seen(Thrown("TimeoutError"))

\* C23: BasePage.isVisible never throws: it returns true when the wait
\* for visibility succeeds and false when that wait fails for any reason,
\* and it does nothing else on the page.
C23_IsVisibleNeverThrows ==
  call.fn = "isVisible" =>
    /\ ~Rejected
    /\ \A i \in 1..Len(call.log) : i = 1 /\ call.log[i].ev = "waitFor"
    /\ call.pc = "done" =>
         /\ Len(call.log) = 1
         /\ call.result = Seen(Returned(call.log[1].out = "ok"))

\* The wait of an isVisible failed with an error that is no timeout, and
\* the call returned false.
C23_Witness ==
  /\ call.fn = "isVisible"
  /\ Len(call.log) = 1
  /\ call.log[1].out = "Error"
  /\ call.result = Seen(Returned(FALSE))


\* The page object the operation about to run is called on was built over
\* the page of the test that runs, hence during that test.
OwnObjectsOnly ==
  Running /\ OwnerOf(CurrentOp) # "page" =>
    objects[OwnerOf(CurrentOp)] = objects.page

\* Within a test the operations run one after another: a step ends the
\* operation the test is at and leaves it there or goes to the one after
\* it, and only a test that has ended gives way to the next test, which
\* starts at its first operation on a page of its own.
OneAfterAnother ==
  \/ /\ scenario' = scenario
     /\ objects'.page = objects.page
     /\ at' \in {at, at + 1}
     /\ at' = at + 1 => Running
  \/ /\ verdict = "passed"
     /\ scenario' # scenario
     /\ at' = 1
     /\ objects'.page = objects.page + 1

\* C24: there is no shared mutable state between UI test scenarios: every
\* page object a scenario uses (home page, status page, report-outage
\* dialog) was constructed during that same scenario over that scenario's
\* own page, and within a scenario all operations run strictly one after
\* another.
C24_NoSharedPageObjects == []OwnObjectsOnly /\ [][OneAfterAnother]_vars

\* The second test of a worker is using a dialog object it has built over
\* its own page, while the test before it had built one over its page.
C24_Witness ==
  /\ objects.page = 2
  /\ objects.dialog = 2
  /\ Running
  /\ OwnerOf(CurrentOp) = "dialog"


\* The script with its scheduling.  Every external call eventually returns
\* or throws and the script's own statements run on to the next await: a
\* step that stays possible is eventually taken (weak fairness of every
\* action).  For reading the file and for building the request body, weak
\* fairness is written out with the condition under which the step is
\* possible: the file is read when the script is Ready, and a definition
\* that passed the validation is built into a body or fails to build.
FairSpec ==
  /\ Spec
  /\ WF_vars(LoadConfig) /\ WF_vars(FetchSecretsCall)
  /\ WF_vars(FetchSecretsReturn) /\ WF_vars(SetupAuth)
  /\ WF_vars(ValidateThrows) /\ WF_vars(SkipItem)
  /\ WF_vars(CreateReturns) /\ WF_vars(CreateThrows)
  /\ WF_vars(AddReturns) /\ WF_vars(AddThrows)
  /\ WF_vars(Report) /\ WF_vars(Exit)
  /\ ([]<>(pc # "Ready") \/ []<><<LoadTestCases>>_vars)
  /\ ([]<>(~(InLoop /\ ~PropertyThrows(Current) /\ ~FailsValidation(Current)))
        \/ []<><<BuildFails \/ CreateCall>>_vars)

\* C27: when every external call eventually returns or throws, every run
\* of the sync script eventually reaches a terminal state with exit code 0
\* or 1, whatever the finite test-case list.
C27_RunTerminates == <>(pc = "Terminal" /\ exitCode \in {0, 1})

\* A run over a list of the largest length has gone through every
\* definition, printed its summary and exited.
C27_Witness ==
  /\ pc = "Terminal"
  /\ exitCode \in {0, 1}
  /\ summary.printed
  /\ summary.total = MaxCases
  /\ Len(results) = MaxCases

\* C28: a definition is counted as created only when both createTestCase and
\* addToSuite resolved for it.  When createTestCase resolved and addToSuite
\* rejected, the definition is counted and listed as failed with the suite
\* request's message, exactly one createTestCase and one addToSuite request
\* were posted for it (no retry, no second link), and no request other than
\* these two kinds (such as a delete) is ever posted.
C28_CreatedOnlyWhenBothSucceed ==
  LET Closed(op, i, ok) ==
        \E k \in ResponsesOf(op, i) : responses[k].outcome.ok = ok
      Both ==
        {i \in 1..Len(results) :
           Closed("createTestCase", i, TRUE) /\ Closed("addToSuite", i, TRUE)}
      Orphaned ==
        {i \in 1..Len(results) :
           Closed("createTestCase", i, TRUE) /\ Closed("addToSuite", i, FALSE)}
  IN  /\ successCount = Cardinality(Both)
      /\ \A i \in 1..Len(results) : results[i].kind = "Created" <=> i \in Both
      /\ failedCount =
           Cardinality({i \in 1..Len(results) : results[i].kind # "Created"})
      /\ \A i \in Orphaned :
           /\ results[i].kind = "Failed"
           /\ results[i].reason = "Request failed with status code 404"
           /\ \E k \in 1..Len(failedTestCases) :
                failedTestCases[k] =
                  FailureEntry(testCases.a[i], "Request failed with status code 404")
           /\ Cardinality(CallsOf("createTestCase", i)) = 1
           /\ Cardinality(CallsOf("addToSuite", i)) = 1
      /\ \A k \in 1..Len(calls) : calls[k].op \in {"createTestCase", "addToSuite"}

\* A finished run in which one definition was created and linked and
\* another was created but could not be linked.
C28_Witness ==
  /\ pc = "Terminal"
  /\ summary.printed
  /\ summary.created = 1
  /\ summary.failed >= 1
  /\ \E i \in 1..Len(results) : results[i].kind = "Created"
  /\ \E i \in 1..Len(results) :
       /\ results[i].kind = "Failed"
       /\ results[i].reason = "Request failed with status code 404"
       /\ \E k \in 1..Len(responses) :
            /\ responses[k].op = "createTestCase"
            /\ responses[k].item = i
            /\ responses[k].outcome.ok

RECURSIVE DecodeEntity(_, _, _)
\* A text with every occurrence of one entity, read from the left, replaced
\* by its character.
DecodeEntity(t, entity, c) ==
  IF t = <<>> THEN <<>>
  ELSE IF StartsWith(t, entity)
  THEN <<c>> \o DecodeEntity(Drop(t, Len(entity)), entity, c)
  ELSE <<Head(t)>> \o DecodeEntity(Tail(t), entity, c)

\* The three entities decoded one after the other, &amp; last.
Decoded(t) ==
  DecodeEntity(DecodeEntity(DecodeEntity(t, LtEntity, "<"), GtEntity, ">"),
               AmpEntity, "&")

\* The number of positions of a text that hold character c.
Occurrences(t, c) == Cardinality({k \in 1..Len(t) : t[k] = c})

\* C29: xmlEscape of a string is lossless and single-pass.  Decoding &lt;,
\* &gt; and then &amp; in the escaped text gives back the string; no other
\* string has the same escaped text; every & of the string, one that begins
\* an entity included, is escaped once (the text grows by four characters
\* for each & and by three for each < and >), so that &lt; becomes &amp;lt;
\* and a string holding one of the three characters is never returned
\* unchanged.
C29_EscapeLosslessSinglePass ==
  (Applied("xmlEscape") /\ argument.t = "string") =>
    /\ returned.o.ok
    /\ Decoded(returned.o.v) = argument.s
    /\ \A x \in EscapeInputs :
         (x.t = "string" /\ xmlEscape(x) = returned.o) => x = argument
    /\ Len(returned.o.v) =
         Len(argument.s) + 4 * Occurrences(argument.s, "&")
           + 3 * Occurrences(argument.s, "<") + 3 * Occurrences(argument.s, ">")
    /\ (\E c \in {"&", "<", ">"} : Occurrences(argument.s, c) > 0) =>
         returned.o.v # argument.s
    /\ argument.s = LtEntity =>
         returned.o.v = <<"&", "a", "m", "p", ";", "l", "t", ";">>

\* xmlEscape was given &lt; and returned &amp;lt;, which decodes to &lt;.
C29_Witness ==
  /\ Applied("xmlEscape")
  /\ argument = Str(LtEntity)
  /\ returned.o = Returned(<<"&", "a", "m", "p", ";", "l", "t", ";">>)
  /\ Decoded(returned.o.v) = LtEntity
====
